---- MODULE Spec2Model ----
(***************************************************************************)
(* Model of the node-identity / span-interning layer of bracketlint        *)
(* (crates/bl_ast/src/ast.rs): the AstNodeId allocator, the global         *)
(* SPAN_MAP behind its reader/writer lock, LocalSpanMap, and AstNodes.     *)
(*                                                                         *)
(* Spec      parallel workers driving SpanMap / LocalSpanMap, one lock     *)
(*           acquisition, table growth and table write per step.          *)
(* ListSpec  one thread building and merging AstNodes lists.               *)
(***************************************************************************)
EXTENDS Integers, Sequences, FiniteSets, TLC

\* ------------------------------------------------------------------ bounds
\* Largest AstNodeId the allocator hands out in a run.
MaxId == 3
\* Largest AstNodeId issued while lists are built (ListSpec).
MaxListId == 4
MaxEditId == 3
MaxTreeId == 3
\* Largest AstNodeId passed to extend_map on its own (ExtSpec).
MaxExtId == 3
\* Most nodes in a tree handed to the visitor (VisitSpec).
MaxWalkNodes == 4
\* Largest AstNodeId issued, and most nodes alive at once, while lists are
\* cloned (CloneSpec).
MaxCloneId == 2
MaxCloneNodes == 2
\* Most results the parallel file walker hands to the visitors (WalkSpec).
MaxWalk == 3
\* Most results handed to the visitors when only visit runs (ClassifySpec).
MaxClassify == 2
\* Most paths given to one call of check (FindSpec).
MaxPaths == 2
\* Most members added to one WorkspaceMembers (MemberSpec).
MaxMembers == 3

\* --------------------------------------------------------------- constants
\* AstNodeId::null() is AstNodeId::from(0).
NullId == 0
\* SourceId::default(), the source of the null span.
DefaultSource == 0
\* First value of AST_COUNTER: 0 is reserved for the null id.
FirstId == 1

\* The parser workers (threads), the source files, and the byte ranges the
\* workers reserve and record.
Workers == {"w1", "w2"}
Sources == {0, 1}
Ids == FirstId..MaxId
\* Each worker parses one source file at a time: the file of its LocalSpanMap.
SourceOf(w) == IF w = "w1" THEN 0 ELSE 1

VARIABLES
    counter,    \* AST_COUNTER: the next AstNodeId to issue
    table,      \* SPAN_MAP's Vec<Span>; the span of id is table[id + 1]
    lock,       \* SPAN_MAP's RwLock: [writer |-> BOOLEAN, readers |-> Nat]
    debug,      \* the build has debug assertions enabled
    pc,         \* each worker's position
    buf,        \* each worker's LocalSpanMap.map: Seq(<<id, range>>)
    bufSrc,     \* each worker's LocalSpanMap.source
    bufOpen,    \* the worker holds a LocalSpanMap
    arg,        \* the locals of the call a worker is inside
    owned,      \* ids add_span has returned: the ids of the AstNodes lists
    failure,    \* why a worker's thread panicked
    issued,     \* history: every id issued, in allocation order
    resv,       \* history: what was reserved or recorded for an id, and its fate
    lists,      \* ListSpec: the AstNodes values alive, by handle
    pool,       \* ListSpec: the AstNode values not yet put in a list
    outcome,    \* ListSpec: history: what the last list operation did
    lbuf,       \* EditSpec: the thread's LocalSpanMap.map: Seq(<<id, range>>)
    tree,       \* NodeSpec: the nodes of one AstNodes: Seq([id, body])
    iter,       \* NodeSpec: the iterator ast_ref_iter returned, and its yields
    trav,       \* VisitSpec: the tree being walked, the walk's stack and visits
    visitors,   \* WalkSpec: each FilesVisitor: its state, local_files, local_error
    merged,     \* WalkSpec: WalkFilesState.merged and its mutex
    walked,     \* WalkSpec: how many results the walker has handed out
    finished,   \* WalkSpec: what WalkFilesState::finish returned
    run,        \* FindSpec: the call of check / find_files_in_paths under way
    members,    \* MemberSpec: WorkspaceMembers.members: Seq(Member)
    memberMap,  \* MemberSpec: WorkspaceMembers.member_map: path -> MemberId
    added       \* MemberSpec: history: every add_member call and the id it gave

vars == <<counter, table, lock, debug, pc, buf, bufSrc, bufOpen, arg, owned,
          failure, issued, resv, lists, pool, outcome, lbuf, tree, iter,
          trav, visitors, merged, walked, finished, run, members, memberMap,
          added>>

\* The variables of the check command and of the workspace.
workVars == <<run, members, memberMap, added>>
\* The variables of the tree walk, of the file walk and of the workspace; no
\* SpanMap or AstNodes call touches them.
walkVars == <<trav, visitors, merged, walked, finished, workVars>>
spanVars == <<pc, buf, bufSrc, bufOpen, arg, owned, failure, resv, lock, walkVars>>
editVars == <<lbuf, tree, iter>>
listVars == <<lists, pool, outcome, editVars, walkVars>>

\* ------------------------------------------------------------------ spans
Span(range, src) == [range |-> range, id |-> src]
SpanNull == Span(<<0, 0>>, DefaultSource)
SpanStart(s) == s.range[1]
SpanEnd(s) == s.range[2]

Min(a, b) == IF a <= b THEN a ELSE b
Max(a, b) == IF a >= b THEN a ELSE b
SatSub(a, b) == IF a >= b THEN a - b ELSE 0

\* Spans a caller passes to add_span / update_span in the parallel run.
InputSpans == {Span(<<0, 2>>, 0), Span(<<1, 2>>, 1)}

\* ------------------------------------------------------------- the table
InBounds(tbl, id) == id + 1 <= Len(tbl)
At(tbl, id) == tbl[id + 1]

ExtendMap_Reset(writer, id) ==
    IF id + 1 > Len(writer) THEN [i \in 1..(id + 1) |-> SpanNull] ELSE writer

ExtendMap_Resize(writer, id) ==
    [i \in 1..(id + 1) |-> IF i <= Len(writer) THEN writer[i] ELSE SpanNull]

ExtendMap_Short(writer, id) ==
    writer \o [i \in 1..SatSub(id, Len(writer)) |-> SpanNull]

ExtendMap(writer, id) ==
    LET len == SatSub(id + 1, Len(writer))
    IN  IF len > 0 THEN writer \o [i \in 1..len |-> SpanNull] ELSE writer

Store_Push(writer, id, span) == Append(writer, span)

Store_Below(writer, id, span) == [writer EXCEPT ![id] = span]

Store(writer, id, span) == [writer EXCEPT ![id + 1] = span]

\* ---------------------------------------------------------- the allocator
\* AstNodeId::new(): fetch-and-increment of AST_COUNTER.
NewId == counter
CounterAfterNew == counter + 1

\* ------------------------------------------------------------- the lock
CanWrite_IgnoresReaders == ~lock.writer

CanWrite == ~lock.writer /\ lock.readers = 0
CanRead == ~lock.writer
WriteLocked == [lock EXCEPT !.writer = TRUE]
WriteUnlocked == [lock EXCEPT !.writer = FALSE]
ReadLocked == [lock EXCEPT !.readers = @ + 1]
ReadUnlocked == [lock EXCEPT !.readers = @ - 1]

NoArg == [id |-> NullId, span |-> SpanNull, idx |-> 0, flag |-> FALSE]
NoResv == [range |-> <<0, 0>>, src |-> DefaultSource, st |-> "none"]

\* An AstNodes value: its nodes (each AstNode stands as its id) and its own id.
\* The list-building thread keeps two AstNodes variables.
Handles == {1, 2}
NoList == [alive |-> FALSE, nodes |-> <<>>, id |-> NullId]
NoOutcome == [op |-> "none", fail |-> "none"]
\* No tree is being walked.
NoTrav == [on |-> FALSE, kids |-> <<>>, stack |-> <<>>, seen |-> <<>>,
           skipped |-> {}]
\* The FilesVisitor values ignore's parallel walker builds, one per thread.
Visitors == {"v1", "v2"}
\* The walker has not built this visitor.  took and threw are the local_files
\* and the local_error its drop moved out, kept for the claims.
NoVisitor ==
    [st |-> "unbuilt", files |-> <<>>, error |-> "ok", took |-> <<>>,
     threw |-> "ok"]
\* No call of check is under way.
NoRun == [pc |-> "idle"]
\* The paths members are added under, and HashMap::get finding none.
MemberPaths == {"a", "b"}
NoMember == -1
\* WalkFilesState::finish has not been called.
NotFinished == [done |-> FALSE, ok |-> TRUE, files |-> <<>>, error |-> "ok"]
\* No iterator is alive.
NoIter == [on |-> FALSE, pos |-> 0, out |-> <<>>, runs |-> 0]

BufIds(w) == {buf[w][i][1] : i \in 1..Len(buf[w])}

\* The state after construction, with no list behind any handle of hs and the
\* FilesVisitor values one of vs.
InitWith(hs, vs) ==
    /\ counter = FirstId
    /\ table = <<SpanNull>>
    /\ lock = [writer |-> FALSE, readers |-> 0]
    /\ debug \in BOOLEAN
    /\ pc = [w \in Workers |-> "idle"]
    /\ buf = [w \in Workers |-> <<>>]
    /\ bufSrc = [w \in Workers |-> DefaultSource]
    /\ bufOpen = [w \in Workers |-> FALSE]
    /\ arg = [w \in Workers |-> NoArg]
    /\ owned = {}
    /\ failure = [w \in Workers |-> "none"]
    /\ issued = <<>>
    /\ resv = [i \in Ids |-> NoResv]
    /\ lists = [h \in hs |-> NoList]
    /\ pool = <<>>
    /\ outcome = NoOutcome
    /\ lbuf = <<>>
    /\ tree = <<>>
    /\ iter = NoIter
    /\ trav = NoTrav
    /\ visitors \in vs
    /\ merged = [files |-> <<>>, error |-> "ok", locked |-> FALSE]
    /\ walked = 0
    /\ finished = NotFinished
    /\ run = NoRun
    /\ members = <<>>
    /\ memberMap = [p \in MemberPaths |-> NoMember]
    /\ added = <<>>

\* The walker has built no visitor.
NoVisitors == {[v \in Visitors |-> NoVisitor]}

Init == InitWith(Handles, NoVisitors)

\* ---------------------------------------------------------------- helpers
Set(f, w, v) == [f EXCEPT ![w] = v]

\* Calls that allocate and have not yet reached AstNodeId::new().
PendingAlloc == Cardinality({w \in Workers : pc[w] = "r_alloc"})
CanAlloc == counter + PendingAlloc <= MaxId

\* A LocalSpanMap that goes out of scope without add_local_map.
DropMarks(w) ==
    [i \in Ids |-> IF i \in BufIds(w) /\ resv[i].st = "reserved"
                   THEN [resv[i] EXCEPT !.st = "dropped"] ELSE resv[i]]

\* The thread of w unwinds: its locals, its LocalSpanMap included, are dropped.
Panicked(w, why) ==
    /\ pc' = Set(pc, w, "panicked")
    /\ failure' = Set(failure, w, why)
    /\ arg' = Set(arg, w, NoArg)
    /\ buf' = Set(buf, w, <<>>)
    /\ bufOpen' = Set(bufOpen, w, FALSE)
    /\ resv' = DropMarks(w)

\* ------------------------------------------------------------ LocalSpanMap
\* LocalSpanMap::new(source)
NewBuffer(w, src) ==
    /\ pc[w] = "idle" /\ ~bufOpen[w]
    /\ bufOpen' = Set(bufOpen, w, TRUE)
    /\ bufSrc' = Set(bufSrc, w, src)
    /\ buf' = Set(buf, w, <<>>)
    /\ UNCHANGED <<counter, table, lock, debug, pc, arg, owned, failure, issued,
                   resv, listVars>>

\* The parser reserves the ranges of one file front to back: the n-th token
\* of the file a worker parses covers the bytes [n, n + 1).
NextRanges(w) == {<<Len(buf[w]), Len(buf[w]) + 1>>}

\* The id LocalSpanMap::add returns.
LocalAddId_Local(w) ==
    IF buf[w] = <<>> THEN NewId ELSE buf[w][Len(buf[w])][1] + 1

LocalAddId(w) == NewId

\* LocalSpanMap::add(range)
Reserve(w, range) ==
    /\ pc[w] = "idle" /\ bufOpen[w] /\ CanAlloc
    /\ LET id == LocalAddId(w)
       IN  /\ counter' = CounterAfterNew
           /\ buf' = Set(buf, w, Append(buf[w], <<id, range>>))
           /\ issued' = Append(issued, id)
           /\ resv' = [resv EXCEPT ![id] =
                          [range |-> range, src |-> bufSrc[w], st |-> "reserved"]]
    /\ UNCHANGED <<table, lock, debug, pc, bufSrc, bufOpen, arg, owned, failure,
                   listVars>>

\* A LocalSpanMap dropped without being committed.
DropBuffer(w) ==
    /\ pc[w] = "idle" /\ bufOpen[w]
    /\ bufOpen' = Set(bufOpen, w, FALSE)
    /\ buf' = Set(buf, w, <<>>)
    /\ resv' = DropMarks(w)
    /\ UNCHANGED <<counter, table, lock, debug, pc, bufSrc, arg, owned, failure,
                   issued, listVars>>

\* ------------------------------------------------- SpanMap::add_local_map
\* The table after add_local_map on an empty map.
EmptyCommitTable_Grow(tbl) == ExtendMap(tbl, counter - 1)

EmptyCommitTable(tbl) == tbl

\* add_local_map, up to SPAN_MAP.write(): the early return on an empty map,
\* otherwise the write lock is taken.
CommitBegin(w) ==
    /\ pc[w] = "idle" /\ bufOpen[w]
    /\ IF buf[w] = <<>>
       THEN /\ table' = EmptyCommitTable(table)
            /\ bufOpen' = Set(bufOpen, w, FALSE)
            /\ pc' = Set(pc, w, "c_empty")
            /\ UNCHANGED lock
       ELSE /\ CanWrite
            /\ lock' = WriteLocked
            /\ pc' = Set(pc, w, "c_extend")
            /\ UNCHANGED <<table, bufOpen>>
    /\ UNCHANGED <<counter, debug, buf, bufSrc, arg, owned, failure, issued, resv,
                   listVars>>

\* add_local_map on an empty map returns to its caller.
CommitReturn(w) ==
    /\ pc[w] = "c_empty"
    /\ pc' = Set(pc, w, "idle")
    /\ UNCHANGED <<counter, table, lock, debug, buf, bufSrc, bufOpen, arg, owned,
                   failure, issued, resv, listVars>>

\* let (key, _) = local.map.last().unwrap()
CommitKey_First(w) == buf[w][1][1]

CommitKey(w) == buf[w][Len(buf[w])][1]

\* Self::extend_map(&mut writer, *key)
CommitExtend(w) ==
    /\ pc[w] = "c_extend"
    /\ table' = ExtendMap(table, CommitKey(w))
    /\ pc' = Set(pc, w, "c_write")
    /\ arg' = Set(arg, w, [NoArg EXCEPT !.idx = 1])
    /\ UNCHANGED <<counter, lock, debug, buf, bufSrc, bufOpen, owned, failure,
                   issued, resv, listVars>>

\* Span::new(range, local.source) for the i-th entry of the map.
CommitSpan_NoSource(w, i) == Span(buf[w][i][2], DefaultSource)

CommitSpan(w, i) == Span(buf[w][i][2], bufSrc[w])

\* The lock after one iteration of the loop: the guard is dropped when
\* add_local_map returns.
LockAfterCommitWrite_PerEntry(done) == WriteUnlocked

LockAfterCommitWrite(done) == IF done THEN WriteUnlocked ELSE lock

\* One iteration of `for (id, range) in local.map { writer[id] = ... }`; the
\* last one returns.
CommitWrite(w) ==
    /\ pc[w] = "c_write"
    /\ LET i == arg[w].idx
           id == buf[w][i][1]
           done == i = Len(buf[w])
       IN  IF ~InBounds(table, id)
           THEN /\ Panicked(w, "index_out_of_bounds")
                /\ lock' = WriteUnlocked
                /\ UNCHANGED <<counter, table, debug, bufSrc, owned, issued,
                               listVars>>
           ELSE /\ table' = Store(table, id, CommitSpan(w, i))
                /\ resv' = [resv EXCEPT ![id].st = "committed"]
                /\ lock' = LockAfterCommitWrite(done)
                /\ IF done
                   THEN /\ pc' = Set(pc, w, "idle")
                        /\ arg' = Set(arg, w, NoArg)
                        /\ buf' = Set(buf, w, <<>>)
                        /\ bufOpen' = Set(bufOpen, w, FALSE)
                   ELSE /\ arg' = Set(arg, w, [arg[w] EXCEPT !.idx = i + 1])
                        /\ UNCHANGED <<pc, buf, bufOpen>>
                /\ UNCHANGED <<counter, debug, bufSrc, owned, failure, issued,
                               listVars>>

\* ------------------------------------------------------ SpanMap::add_span
\* History: add_span or update_span has stored span under id.
Stored(id, span) ==
    [resv EXCEPT ![id] = [range |-> span.range, src |-> span.id, st |-> "recorded"]]

\* let mut writer = SPAN_MAP.write()
RecordBegin(w, span) ==
    /\ pc[w] = "idle" /\ CanAlloc
    /\ CanWrite
    /\ lock' = WriteLocked
    /\ pc' = Set(pc, w, "r_alloc")
    /\ arg' = Set(arg, w, [NoArg EXCEPT !.span = span])
    /\ UNCHANGED <<counter, table, debug, buf, bufSrc, bufOpen, owned, failure,
                   issued, resv, listVars>>

\* The id add_span stores its span under.
AddSpanId(w) == NewId

\* let id = AstNodeId::new(); Self::extend_map(&mut writer, id)
RecordAlloc(w) ==
    /\ pc[w] = "r_alloc"
    /\ LET id == AddSpanId(w)
       IN  /\ counter' = CounterAfterNew
           /\ issued' = Append(issued, id)
           /\ arg' = Set(arg, w, [arg[w] EXCEPT !.id = id])
           /\ table' = ExtendMap(table, id)
    /\ pc' = Set(pc, w, "r_write")
    /\ UNCHANGED <<lock, debug, buf, bufSrc, bufOpen, owned, failure, resv,
                   listVars>>

\* writer[id.to_usize()] = span; id   (the guard is dropped on return)
RecordWrite(w) ==
    /\ pc[w] = "r_write"
    /\ lock' = WriteUnlocked
    /\ IF ~InBounds(table, arg[w].id)
       THEN /\ Panicked(w, "index_out_of_bounds")
            /\ UNCHANGED <<table, owned>>
       ELSE /\ table' = Store(table, arg[w].id, arg[w].span)
            /\ owned' = owned \cup {arg[w].id}
            /\ pc' = Set(pc, w, "idle")
            /\ arg' = Set(arg, w, NoArg)
            /\ resv' = Stored(arg[w].id, arg[w].span)
            /\ UNCHANGED <<buf, bufOpen, failure>>
    /\ UNCHANGED <<counter, debug, bufSrc, issued, listVars>>

\* --------------------------------------------------- SpanMap::update_span
\* SPAN_MAP.write(), reached through AstNodes::set_span on a list.
UpdateBegin(w, id, span) ==
    /\ pc[w] = "idle" /\ id \in owned
    /\ CanWrite
    /\ lock' = WriteLocked
    /\ pc' = Set(pc, w, "u_write")
    /\ arg' = Set(arg, w, [NoArg EXCEPT !.id = id, !.span = span])
    /\ UNCHANGED <<counter, table, debug, buf, bufSrc, bufOpen, owned, failure,
                   issued, resv, listVars>>

\* SPAN_MAP.write()[id.to_usize()] = span
UpdateWrite(w) ==
    /\ pc[w] = "u_write"
    /\ lock' = WriteUnlocked
    /\ IF ~InBounds(table, arg[w].id)
       THEN /\ Panicked(w, "index_out_of_bounds")
            /\ UNCHANGED table
       ELSE /\ table' = Store(table, arg[w].id, arg[w].span)
            /\ pc' = Set(pc, w, "idle")
            /\ arg' = Set(arg, w, NoArg)
            /\ resv' = Stored(arg[w].id, arg[w].span)
            /\ UNCHANGED <<buf, bufOpen, failure>>
    /\ UNCHANGED <<counter, debug, bufSrc, owned, issued, listVars>>

\* ------------------------------------------------------- SpanMap::span_of
\* SPAN_MAP.read()
GetBegin(w, id) ==
    /\ pc[w] = "idle"
    /\ CanRead
    /\ lock' = ReadLocked
    /\ pc' = Set(pc, w, "g_read")
    /\ arg' = Set(arg, w, [NoArg EXCEPT !.id = id])
    /\ UNCHANGED <<counter, table, debug, buf, bufSrc, bufOpen, owned, failure,
                   issued, resv, listVars>>

\* debug_assert_ne!(span, Span::null()): compiled in only with debug assertions.
NullSpanAssertFails_Never(span) == FALSE

NullSpanAssertFails(span) == debug /\ span = SpanNull

\* How a call of span_of that reads the table tbl ends: an index panic, the
\* failed debug assertion, or the span it returns.
SpanOf(tbl, id) ==
    IF ~InBounds(tbl, id) THEN [fail |-> "index_out_of_bounds"]
    ELSE IF NullSpanAssertFails(At(tbl, id)) THEN [fail |-> "null_span"]
    ELSE [fail |-> "none", span |-> At(tbl, id)]

\* let span = SPAN_MAP.read()[id.to_usize()];   (the guard is a temporary)
\* debug_assert_ne!(span, Span::null(), ..); span   (back to the caller)
GetRead(w) ==
    /\ pc[w] = "g_read"
    /\ lock' = ReadUnlocked
    /\ LET r == SpanOf(table, arg[w].id)
       IN  IF r.fail # "none"
           THEN Panicked(w, r.fail)
           ELSE /\ pc' = Set(pc, w, "idle")
                /\ arg' = Set(arg, w, NoArg)
                /\ UNCHANGED <<buf, bufOpen, failure, resv>>
    /\ UNCHANGED <<counter, table, debug, bufSrc, owned, issued, listVars>>

\* Ids a caller can hold: the null id and every id issued so far.
KnownIds == {NullId} \cup {issued[i] : i \in 1..Len(issued)}

Next ==
    \E w \in Workers :
        \/ NewBuffer(w, SourceOf(w))
        \/ \E range \in NextRanges(w) : Reserve(w, range)
        \/ DropBuffer(w)
        \/ CommitBegin(w)
        \/ CommitReturn(w)
        \/ CommitExtend(w)
        \/ CommitWrite(w)
        \/ \E span \in InputSpans : RecordBegin(w, span)
        \/ RecordAlloc(w)
        \/ RecordWrite(w)
        \/ \E id \in owned, span \in InputSpans : UpdateBegin(w, id, span)
        \/ UpdateWrite(w)
        \/ \E id \in KnownIds : GetBegin(w, id)
        \/ GetRead(w)

Spec == Init /\ [][Next]_vars

\* ======================================================== claims under Spec
\* What LocalSpanMap::add reserved for id, as the Span its commit must store.
ReservedSpan(id) == Span(resv[id].range, resv[id].src)
Committed(id) == resv[id].st = "committed"

\* C1: once add_local_map has written the entry of an id that LocalSpanMap::add
\* returned, span_of resolves that id to exactly the reserved byte range tagged
\* with the map's source, in every state of every interleaving with the other
\* worker's reserve, record and commit calls.
C1_CommittedResolves ==
    \A id \in Ids : Committed(id) =>
        SpanOf(table, id) = [fail |-> "none", span |-> ReservedSpan(id)]

\* C1 witness: a worker holds the read lock inside span_of on a committed id
\* of a two-entry map while an entry of the other worker's map sits in the
\* table too.
C1_Witness ==
    \E w \in Workers, i, j, k \in Ids :
        /\ pc[w] = "g_read" /\ arg[w].id = i
        /\ i # j /\ Committed(i) /\ Committed(j) /\ Committed(k)
        /\ resv[i].src = resv[j].src /\ resv[k].src # resv[i].src

\* C2: the ids issued through add_span and LocalSpanMap::add, by whichever
\* workers, are strictly increasing in allocation order, hence pairwise distinct.
C2_IssuedIncreasing ==
    \A i, j \in 1..Len(issued) : i < j => issued[i] < issued[j]

\* C2 witness: both workers have reserved ids and add_span has issued one.
C2_Witness ==
    /\ owned # {}
    /\ \E i, j \in Ids : /\ resv[i].st # "none" /\ resv[j].st # "none"
                         /\ resv[i].src # resv[j].src

InWrite(w) == pc[w] \in {"c_extend", "c_write", "r_alloc", "r_write", "u_write"}
InRead(w) == pc[w] = "g_read"
\* add_local_map of w has written some but not all of its entries.
PartlyCommitted(w) == pc[w] = "c_write" /\ arg[w].idx > 1

\* C3: whenever a worker is inside a table access (a read in span_of, or the
\* critical section of add_span, update_span or another add_local_map), no other
\* worker's add_local_map has written only part of its entries; and an id whose
\* LocalSpanMap was dropped uncommitted has no span in the table.
C3_CommitAtomic ==
    /\ \A r, w \in Workers :
          (r # w /\ (InRead(r) \/ InWrite(r))) => ~PartlyCommitted(w)
    /\ \A id \in Ids : resv[id].st = "dropped" =>
          (~InBounds(table, id) \/ At(table, id) = SpanNull)

\* C3 witness: a reader is inside span_of with a complete two-entry commit in
\* the table and the slot of a dropped map's id inside the table's bounds.
C3_Witness ==
    \E r \in Workers, i, j, k \in Ids :
        /\ InRead(r)
        /\ i # j /\ Committed(i) /\ Committed(j) /\ resv[i].src = resv[j].src
        /\ resv[k].st = "dropped" /\ InBounds(table, k)

\* C4: a call of add_local_map on an empty LocalSpanMap, from its entry to its
\* return, leaves the table's length and every entry as they were.
C4_EmptyCommitNoChange ==
    [][\A w \in Workers :
          ((pc[w] = "idle" /\ pc'[w] = "c_empty") \/
           (pc[w] = "c_empty" /\ pc'[w] = "idle")) => table' = table]_vars

\* C4 witness: an empty commit has run while ids issued to the other worker are
\* not yet covered by the table.
C4_Witness ==
    \E w \in Workers : pc[w] = "c_empty" /\ Len(table) < counter

\* C5: at most one worker is inside a write critical section, no worker is
\* inside span_of's read while one is, and the table changes only in a step
\* taken while a worker is inside a write critical section.
C5_ExclusiveWriters ==
    [][/\ Cardinality({w \in Workers : InWrite(w)'}) <= 1
       /\ ((\E w \in Workers : InWrite(w)') => ~\E r \in Workers : InRead(r)')
       /\ (table' # table => \E w \in Workers : InWrite(w))]_vars

\* C5 witness: two span_of calls hold the read lock at the same time, over a
\* table that add_span has grown.
C5_Witness ==
    /\ \A w \in Workers : InRead(w)
    /\ owned # {}

\* The stored span a call of span_of is about to read is the null sentinel.
ReadsNull(w) ==
    pc[w] = "g_read" /\ InBounds(table, arg[w].id) /\ At(table, arg[w].id) = SpanNull

\* C10 as stated: span_of on an id whose stored span is null always fails with
\* the assertion and never returns.
C10_AlwaysFails ==
    [][\A w \in Workers : (ReadsNull(w) /\ pc'[w] # pc[w]) =>
          (pc'[w] = "panicked" /\ failure'[w] = "null_span")]_vars

\* C10 amended: span_of on an id whose stored span is null fails with the
\* assertion exactly in builds with debug assertions; in builds without them
\* it returns the null span to its caller.
C10_FailsInDebugBuilds ==
    [][\A w \in Workers : (ReadsNull(w) /\ pc'[w] # pc[w]) =>
          IF debug
          THEN pc'[w] = "panicked" /\ failure'[w] = "null_span"
          ELSE /\ SpanOf(table, arg[w].id) = [fail |-> "none", span |-> SpanNull]
               /\ pc'[w] = "idle" /\ failure'[w] = "none"]_vars

\* C10 witness: a span_of call died on the null-span assertion.
C10_Witness ==
    \E w \in Workers : failure[w] = "null_span"

\* add_span has returned id, and the history holds the span last stored for it.
Recorded(id) == resv[id].st = "recorded"

C14_RecordedResolves ==
    \A id \in Ids : Recorded(id) =>
        SpanOf(table, id) = [fail |-> "none", span |-> ReservedSpan(id)]

\* C14 witness: a span_of call is reading a recorded id that lies below an id
\* the other worker has committed and above one it holds reserved.
C14_Witness ==
    \E w \in Workers, i, j, k \in Ids :
        /\ pc[w] = "g_read" /\ arg[w].id = j /\ Recorded(j)
        /\ i < j /\ j < k /\ Committed(k) /\ resv[i].st = "reserved"

\* C15: a step of LocalSpanMap::add (the only step that lengthens a worker's
\* map) appends one pair to that map, its id never issued before, and leaves
\* the table, its length included, and the lock untouched.
C15_ReserveIsLocal ==
    [][\A w \in Workers : Len(buf'[w]) > Len(buf[w]) =>
          /\ table' = table /\ lock' = lock
          /\ Len(buf'[w]) = Len(buf[w]) + 1
          /\ SubSeq(buf'[w], 1, Len(buf[w])) = buf[w]
          /\ buf'[w][Len(buf'[w])][1] \notin KnownIds
          /\ buf'[w][Len(buf'[w])][1] = issued'[Len(issued')]
          /\ \A v \in Workers \ {w} : buf'[v] = buf[v]]_vars

\* C15 witness: a worker reserved a second id while the other worker was inside
\* add_span's critical section and the table did not yet cover the reserved ids.
C15_Witness ==
    \E w, v \in Workers :
        /\ Len(buf[w]) = 2 /\ pc[v] = "r_write"
        /\ ~InBounds(table, buf[w][2][1])

\* C22: the allocator never issues the null id: no history entry, LocalSpanMap
\* entry, recorded id or pending write carries it, and the table's slot 0
\* holds the null span in every state.
C22_NullIdNeverIssued ==
    [](/\ InBounds(table, NullId) /\ At(table, NullId) = SpanNull
       /\ \A i \in 1..Len(issued) : issued[i] # NullId
       /\ NullId \notin owned
       /\ \A w \in Workers :
             /\ NullId \notin BufIds(w)
             /\ pc[w] \in {"r_write", "u_write"} => arg[w].id # NullId)

\* C22 witness: every id has been issued and written, by records and by
\* commits, and slot 0 is still the null span.
C22_Witness ==
    /\ Len(table) = MaxId + 1 /\ table[1] = SpanNull
    /\ \A id \in Ids : Committed(id) \/ Recorded(id)
    /\ \E i, j \in Ids : Committed(i) /\ Recorded(j)

\* C25: the ids of one LocalSpanMap increase strictly in insertion order, and
\* once add_local_map has grown the table for the last entry every entry of
\* the map is inside the table's bounds, so no write of the commit fails.
C25_BufferIdsIncreasing ==
    [](\A w \in Workers :
          /\ \A i, j \in 1..Len(buf[w]) : i < j => buf[w][i][1] < buf[w][j][1]
          /\ pc[w] = "c_write" =>
                \A i \in 1..Len(buf[w]) : InBounds(table, buf[w][i][1]))

\* C25 witness: a commit has grown the table for the last of two entries whose
\* ids are not neighbours, and the growth created the slot of the first too.
C25_Witness ==
    \E w \in Workers :
        /\ pc[w] = "c_write" /\ arg[w].idx = 1 /\ Len(buf[w]) = 2
        /\ buf[w][2][1] > buf[w][1][1] + 1
        /\ Len(table) = buf[w][2][1] + 1
        /\ At(table, buf[w][1][1]) = SpanNull

\* C26: a step changes a table slot only if a worker is at the write of that
\* slot's id: add_span's own id, update_span's given id, or an id of the map
\* being committed; a record or commit never changes the slot of an id that
\* was recorded or committed before; slots created by growth are null.
C26_WritesOwnSlots ==
    [][/\ \A i \in 1..Len(table) : (i <= Len(table') /\ table'[i] # table[i]) =>
             \E w \in Workers :
                \/ pc[w] = "u_write" /\ arg[w].id = i - 1
                \/ /\ \/ pc[w] = "r_write" /\ arg[w].id = i - 1
                      \/ pc[w] = "c_write" /\ buf[w][arg[w].idx][1] = i - 1
                   /\ ~Committed(i - 1) /\ ~Recorded(i - 1)
       /\ \A i \in (Len(table) + 1)..Len(table') : table'[i] = SpanNull]_vars

\* C26 witness: a commit is in the middle of its writes while the table holds
\* a span recorded by the other worker between the ids being committed.
C26_Witness ==
    \E w \in Workers, id \in Ids :
        /\ pc[w] = "c_write" /\ arg[w].idx = 2
        /\ buf[w][1][1] < id /\ id < buf[w][2][1]
        /\ Recorded(id) /\ At(table, id) \in InputSpans
        /\ Committed(buf[w][1][1])

\* ================================================================ ListSpec
\* One thread builds AstNode values, wraps them in AstNodes lists and merges
\* the lists.  Nothing else runs, so each call is one step.

\* Spans given to AstNodes::new / AstNodes::empty: same-source neighbours in
\* both orders, a span containing another, and the null span.
ListSpans ==
    {Span(<<0, 1>>, 0), Span(<<1, 2>>, 0), Span(<<0, 2>>, 1), Span(<<1, 1>>, 1),
     SpanNull}
\* The span of every AstNode built here.
NodeSpan == Span(<<0, 1>>, 1)

\* The thread has not panicked.
Running == outcome.fail = "none"

\* SpanMap::add_span, run to its end by the only thread.
AddSpan_Push(tbl, id, span) == Append(tbl, span)

AddSpan(tbl, id, span) == Store(ExtendMap(tbl, id), id, span)

\* Hunk::create(span) gives the id of a new AstNode { body, id }.
CreateNode ==
    /\ Running /\ counter <= MaxListId
    /\ LET id == NewId
       IN  /\ counter' = CounterAfterNew
           /\ issued' = Append(issued, id)
           /\ table' = AddSpan(table, id, NodeSpan)
           /\ pool' = Append(pool, id)
    /\ outcome' = NoOutcome
    /\ UNCHANGED <<debug, lists, spanVars, editVars>>

\* AstNodes::new(nodes, span); AstNodes::empty(span) when there are no nodes.
\* The new list takes the first free handle.
NewList(h, span) ==
    /\ Running /\ counter <= MaxListId
    /\ ~lists[h].alive /\ \A g \in 1..(h - 1) : lists[g].alive
    /\ LET id == NewId
       IN  /\ counter' = CounterAfterNew
           /\ issued' = Append(issued, id)
           /\ table' = AddSpan(table, id, span)
           /\ lists' = Set(lists, h, [alive |-> TRUE, nodes |-> pool, id |-> id])
    /\ pool' = <<>>
    /\ outcome' = NoOutcome
    /\ UNCHANGED <<debug, spanVars, editVars>>

\* A list goes out of scope: its nodes are dropped, the table is not touched.
DropList(h) ==
    /\ Running /\ lists[h].alive
    /\ lists' = Set(lists, h, NoList)
    /\ outcome' = NoOutcome
    /\ UNCHANGED <<counter, table, debug, issued, pool, spanVars, editVars>>

\* Span::join(self, other): the union of two spans of one source; spans of
\* different sources fail its assertion.
SpanJoin(a, b) ==
    IF a.id # b.id THEN [fail |-> "source_mismatch"]
    ELSE [fail |-> "none",
          span |-> Span(<<Min(SpanStart(a), SpanStart(b)),
                          Max(SpanEnd(a), SpanEnd(b))>>, a.id)]

\* self.span().join(other.span())
MergedSpan_SelfToOther(selfSpan, otherSpan) ==
    [fail |-> "none",
     span |-> Span(<<SpanStart(selfSpan), SpanEnd(otherSpan)>>, selfSpan.id)]

MergedSpan(selfSpan, otherSpan) == SpanJoin(selfSpan, otherSpan)

\* self.nodes.extend(other.nodes)
MergedNodes_Prepend(selfNodes, otherNodes) == otherNodes \o selfNodes

MergedNodes(selfNodes, otherNodes) == selfNodes \o otherNodes

\* self.set_span(self.span().join(other.span())): how it ends, and the table
\* it leaves.  self.span() is read first, then other.span().
MergeSetSpan(tbl, selfId, otherId) ==
    LET a == SpanOf(tbl, selfId)
        b == SpanOf(tbl, otherId)
    IN  IF a.fail # "none" THEN [fail |-> a.fail, table |-> tbl]
        ELSE IF b.fail # "none" THEN [fail |-> b.fail, table |-> tbl]
        ELSE LET j == MergedSpan(a.span, b.span)
             IN  IF j.fail # "none" THEN [fail |-> j.fail, table |-> tbl]
                 ELSE IF ~InBounds(tbl, selfId)
                      THEN [fail |-> "index_out_of_bounds", table |-> tbl]
                      ELSE [fail |-> "none", table |-> Store(tbl, selfId, j.span)]

\* AstNodes::merge(&mut self, other): a is self, b is other, moved in.  The
\* history keeps both lists as they were, the two stored spans, and what
\* span_of would resolve for b had b.merge(a) been called instead.
Merge(a, b) ==
    /\ Running /\ a # b /\ lists[a].alive /\ lists[b].alive
    /\ LET r == MergeSetSpan(table, lists[a].id, lists[b].id)
           rev == MergeSetSpan(table, lists[b].id, lists[a].id)
       IN  /\ table' = r.table
           /\ lists' = [lists EXCEPT
                           ![a] = IF r.fail = "none"
                                  THEN [@ EXCEPT !.nodes =
                                          MergedNodes(lists[a].nodes, lists[b].nodes)]
                                  ELSE @,
                           ![b] = NoList]
           /\ outcome' = [op |-> "merge", fail |-> r.fail, self |-> a,
                          before |-> lists[a], other |-> lists[b],
                          s1 |-> At(table, lists[a].id),
                          s2 |-> At(table, lists[b].id),
                          rev |-> IF rev.fail # "none" THEN [fail |-> rev.fail]
                                  ELSE SpanOf(rev.table, lists[b].id)]
    /\ UNCHANGED <<counter, debug, issued, pool, spanVars, editVars>>

ListNext ==
    \/ CreateNode
    \/ \E h \in Handles, span \in ListSpans : NewList(h, span)
    \/ \E h \in Handles : DropList(h)
    \/ \E a, b \in Handles : Merge(a, b)

ListSpec == Init /\ [][ListNext]_vars

\* ==================================================== claims under ListSpec
\* The last step was a merge that ran to its end.
Merged == outcome.op = "merge" /\ outcome.fail = "none"
\* The list a completed merge was called on, as it is now.
Receiver == lists[outcome.self]

\* C6: after a merge of two lists whose spans have the same source, span_of on
\* the receiving list's id gives (min of the starts, max of the ends) on that
\* source.
C6_MergeIsUnion ==
    (Merged /\ outcome.s1.id = outcome.s2.id) =>
        SpanOf(table, Receiver.id) =
            [fail |-> "none",
             span |-> Span(<<Min(SpanStart(outcome.s1), SpanStart(outcome.s2)),
                             Max(SpanEnd(outcome.s1), SpanEnd(outcome.s2))>>,
                           outcome.s1.id)]

\* C6 witness: a list that lies after the other one was the receiver, so the
\* start of the result comes from the other list and the end from the receiver.
C6_Witness ==
    /\ Merged /\ outcome.s1.id = outcome.s2.id
    /\ SpanStart(outcome.s2) < SpanStart(outcome.s1)
    /\ SpanEnd(outcome.s2) < SpanEnd(outcome.s1)

\* C7: for two lists with same-source spans, the span resolved for A after
\* A.merge(B) is the span that would be resolved for B after B.merge(A).
C7_MergeOrderFree ==
    (Merged /\ outcome.s1.id = outcome.s2.id) =>
        SpanOf(table, Receiver.id) = outcome.rev

\* C7 witness: a completed same-source merge of two lists with different spans.
C7_Witness ==
    /\ Merged /\ outcome.s1.id = outcome.s2.id
    /\ outcome.s1 # outcome.s2
    /\ SpanEnd(outcome.s1) <= SpanStart(outcome.s2)

\* C8: a completed merge leaves the receiving list's id as it was and makes its
\* nodes the previous nodes followed by the other list's nodes in their order;
\* in the table only the slot of the receiver's id may differ.
C8_MergeAppends ==
    [][(Merged' /\ outcome'.fail = "none") =>
          /\ lists'[outcome'.self].id = outcome'.before.id
          /\ lists'[outcome'.self].nodes = outcome'.before.nodes \o outcome'.other.nodes
          /\ Len(table') = Len(table)
          /\ \A id \in 0..(Len(table) - 1) :
                id # outcome'.before.id => At(table', id) = At(table, id)]_vars

\* C8 witness: both lists of a completed merge held nodes and the receiver's
\* span changed.
C8_Witness ==
    /\ Merged
    /\ outcome.before.nodes # <<>> /\ outcome.other.nodes # <<>>
    /\ At(table, Receiver.id) # outcome.s1

\* C9: a merge of two lists whose spans have different sources fails, and
\* leaves the table as it was.
C9_MismatchFails ==
    [][(outcome'.op = "merge" /\ outcome'.s1.id # outcome'.s2.id) =>
          (outcome'.fail \in {"source_mismatch", "null_span"} /\ table' = table)]_vars

\* C9 witness: a merge of two non-null spans of different sources has failed
\* on the source check.
C9_Witness ==
    /\ outcome.op = "merge" /\ outcome.fail = "source_mismatch"
    /\ outcome.s1 # SpanNull /\ outcome.s2 # SpanNull

\* ================================================================ LockSpec
\* The lock protocol of every SPAN_MAP operation, with the table's contents
\* left out: each worker calls get (span_of), record (add_span), update
\* (update_span), commit (add_local_map) or AstNodes::merge, waits for the
\* guard it needs, holds it, and drops it.  A call can panic while it holds a
\* guard (an index out of bounds) or, in merge, at Span::join; unwinding drops
\* the guard.

LockOps == {"get", "record", "update", "commit", "merge"}

\* Positions at which a worker waits for, or holds, a read or a write guard.
WaitsRead(w) == pc[w] \in {"want_get", "want_merge", "m_between"}
WaitsWrite(w) == pc[w] \in {"want_record", "want_update", "want_commit", "m_join"}
HoldsRead(w) == pc[w] \in {"g_read", "m_read1", "m_read2"}
HoldsWrite(w) == pc[w] \in {"w_record", "w_update", "w_commit", "m_write"}

\* Everything but pc and lock.
lockFrame == <<counter, table, debug, buf, bufSrc, bufOpen, arg, owned, failure,
               issued, resv, listVars>>

\* A worker calls an operation.
LkCall(w, op) ==
    /\ pc[w] = "idle"
    /\ pc' = Set(pc, w, "want_" \o op)
    /\ UNCHANGED <<lock, lockFrame>>

\* add_local_map of an empty map returns before it touches SPAN_MAP.
LkReturnEmpty(w) ==
    /\ pc[w] = "want_commit"
    /\ pc' = Set(pc, w, "idle")
    /\ UNCHANGED <<lock, lockFrame>>

\* SPAN_MAP.read(): span_of in get, and in merge for self.span(), then,
\* once that guard is gone, for other.span().
LkRead(w) ==
    /\ WaitsRead(w) /\ CanRead
    /\ lock' = ReadLocked
    /\ pc' = Set(pc, w, CASE pc[w] = "want_get" -> "g_read"
                          [] pc[w] = "want_merge" -> "m_read1"
                          [] pc[w] = "m_between" -> "m_read2")
    /\ UNCHANGED lockFrame

\* SPAN_MAP.write(): add_span, update_span, add_local_map, and the set_span
\* at the end of merge.
LkWrite(w) ==
    /\ WaitsWrite(w) /\ CanWrite
    /\ lock' = WriteLocked
    /\ pc' = Set(pc, w, CASE pc[w] = "want_record" -> "w_record"
                          [] pc[w] = "want_update" -> "w_update"
                          [] pc[w] = "want_commit" -> "w_commit"
                          [] pc[w] = "m_join" -> "m_write")
    /\ UNCHANGED lockFrame

\* The lock once span_of's statement `let span = SPAN_MAP.read()[..];` ends:
\* the guard is a temporary of that statement.
LockAfterSpanOf_Held == lock

LockAfterSpanOf == ReadUnlocked

\* The read guard is dropped; the call goes on (ok) or has panicked.
LkReadDone(w, ok) ==
    /\ HoldsRead(w)
    /\ lock' = LockAfterSpanOf
    /\ pc' = Set(pc, w, IF ~ok THEN "panicked"
                        ELSE CASE pc[w] = "g_read" -> "idle"
                               [] pc[w] = "m_read1" -> "m_between"
                               [] pc[w] = "m_read2" -> "m_join")
    /\ UNCHANGED lockFrame

\* The write guard is dropped when the function returns or unwinds.
LkWriteDone(w, ok) ==
    /\ HoldsWrite(w)
    /\ lock' = WriteUnlocked
    /\ pc' = Set(pc, w, IF ok THEN "idle" ELSE "panicked")
    /\ UNCHANGED lockFrame

\* Span::join fails on spans of two sources; merge holds no guard then.
LkJoinFail(w) ==
    /\ pc[w] = "m_join"
    /\ pc' = Set(pc, w, "panicked")
    /\ UNCHANGED <<lock, lockFrame>>

\* A step inside a call that has been made.
LkStep(w) ==
    \/ LkReturnEmpty(w)
    \/ LkRead(w)
    \/ LkWrite(w)
    \/ \E ok \in BOOLEAN : LkReadDone(w, ok)
    \/ \E ok \in BOOLEAN : LkWriteDone(w, ok)
    \/ LkJoinFail(w)

LockNext ==
    \E w \in Workers :
        \/ \E op \in LockOps : LkCall(w, op)
        \/ LkStep(w)

\* Threads are scheduled fairly, and parking_lot's RwLock hands the lock to
\* every waiter in the end (its eventual fairness): a worker whose step is
\* possible again and again takes it.
LockSpec == Init /\ [][LockNext]_vars /\ \A w \in Workers : SF_vars(LkStep(w))

\* ==================================================== claims under LockSpec
\* The worker is inside a call.
Busy(w) == pc[w] \notin {"idle", "panicked"}
\* The worker waits for a guard it cannot have now.
Blocked(w) == (WaitsRead(w) /\ ~CanRead) \/ (WaitsWrite(w) /\ ~CanWrite)

\* The guards held are those of the workers at a holding position, one each
\* at most, and some worker inside a call can always take its next step.
LockSound ==
    /\ lock.readers = Cardinality({w \in Workers : HoldsRead(w)})
    /\ lock.writer <=> \E w \in Workers : HoldsWrite(w)
    /\ Cardinality({w \in Workers : HoldsWrite(w)}) <= 1
    /\ ~(lock.writer /\ lock.readers > 0)
    /\ (\E w \in Workers : Busy(w)) => \E w \in Workers : Busy(w) /\ ~Blocked(w)

\* C27: a worker holds at most one guard at a time, the workers never all
\* wait on one another, and under fair scheduling every call that was made
\* ends (returns or panics).
C27_NoDeadlockAllComplete ==
    /\ []LockSound
    /\ \A w \in Workers : Busy(w) ~> ~Busy(w)

\* C27 witness: a merge holds the write guard for its set_span while the
\* other worker waits to read.
C27_Witness ==
    \E w, v \in Workers : pc[w] = "m_write" /\ pc[v] = "want_get" /\ Blocked(v)

\* =============================================================== VisitSpec
\* A tree of the shapes define_tree! declares (Child!, Children! fields, in
\* field order) is built and then walked for a read-only AstVisitor.  Node 1
\* is the root; trav.kids[n] lists the children of node n in source order.

\* A node is added as the last child of p (the root has no parent).
Grow(p) ==
    /\ ~trav.on /\ trav.seen = <<>> /\ Len(trav.kids) < MaxWalkNodes
    /\ IF trav.kids = <<>> THEN p = 0 ELSE p \in 1..Len(trav.kids)
    /\ LET n == Len(trav.kids) + 1
       IN  trav' = [trav EXCEPT !.kids =
                       Append(IF p = 0 THEN @ ELSE [@ EXCEPT ![p] = Append(@, n)],
                              <<>>)]
    /\ UNCHANGED <<counter, table, debug, issued, lists, pool, outcome, editVars,
                   pc, buf, bufSrc, bufOpen, arg, owned, failure, resv, lock,
                   visitors, merged, walked, finished, workVars>>

\* The walk is called on the root.
WalkStart ==
    /\ ~trav.on /\ trav.kids # <<>> /\ trav.seen = <<>>
    /\ trav' = [trav EXCEPT !.on = TRUE, !.stack = <<1>>]
    /\ UNCHANGED <<counter, table, debug, issued, lists, pool, outcome, editVars,
                   pc, buf, bufSrc, bufOpen, arg, owned, failure, resv, lock,
                   visitors, merged, walked, finished, workVars>>

\* The children of a visited node, in the order the walk will reach them.
Descend_Reversed(kids) == [i \in 1..Len(kids) |-> kids[Len(kids) + 1 - i]]

Descend(kids) == kids

\* The visitor is handed the next node; it descends into the node's children
\* or, if it so chooses, skips them.  The walk returns when nothing is left.
WalkVisit(descend) ==
    /\ trav.on
    /\ IF trav.stack = <<>>
       THEN descend /\ trav' = [trav EXCEPT !.on = FALSE]
       ELSE LET n == Head(trav.stack)
            IN  /\ descend \/ trav.kids[n] # <<>>
                /\ trav' = [trav EXCEPT
                      !.seen = Append(@, n),
                      !.stack = (IF descend THEN Descend(trav.kids[n]) ELSE <<>>)
                                    \o Tail(@),
                      !.skipped = IF descend THEN @ ELSE @ \cup {n}]
    /\ UNCHANGED <<counter, table, debug, issued, lists, pool, outcome, editVars,
                   pc, buf, bufSrc, bufOpen, arg, owned, failure, resv, lock,
                   visitors, merged, walked, finished, workVars>>

VisitNext ==
    \/ \E p \in 0..MaxWalkNodes : Grow(p)
    \/ WalkStart
    \/ \E descend \in BOOLEAN : WalkVisit(descend)

VisitSpec == Init /\ [][VisitNext]_vars

\* =================================================== claims under VisitSpec
\* The parent of a node other than the root, and whether a is above c.
Parent(c) == CHOOSE p \in 1..Len(trav.kids) :
                \E k \in 1..Len(trav.kids[p]) : trav.kids[p][k] = c
RECURSIVE IsAbove(_, _)
IsAbove(a, c) == c # 1 /\ (Parent(c) = a \/ IsAbove(a, Parent(c)))
\* Where the visitor saw node n.
SeenAt(n) == CHOOSE i \in 1..Len(trav.seen) : trav.seen[i] = n
Seen == {trav.seen[i] : i \in 1..Len(trav.seen)}
\* The walk has returned.
WalkDone == ~trav.on /\ trav.seen # <<>>

\* C23: the visitor is handed no node twice; a node only after its parent;
\* of two children of one node, the earlier in source order and everything
\* below it before the later and everything below that; and, when the walk
\* has returned, every node not below a node whose children it skipped.
C23_VisitInPreorder ==
    /\ \A i, j \in 1..Len(trav.seen) : i < j => trav.seen[i] # trav.seen[j]
    /\ \A c \in Seen : c # 1 => (Parent(c) \in Seen /\ SeenAt(Parent(c)) < SeenAt(c))
    /\ \A p \in 1..Len(trav.kids) : \A k, l \in 1..Len(trav.kids[p]) : k < l =>
          \A x, y \in Seen :
             ( /\ x = trav.kids[p][k] \/ IsAbove(trav.kids[p][k], x)
               /\ y = trav.kids[p][l] \/ IsAbove(trav.kids[p][l], y) )
                 => SeenAt(x) < SeenAt(y)
    /\ WalkDone =>
          \A n \in 1..Len(trav.kids) :
             n \in Seen <=> ~\E a \in trav.skipped : IsAbove(a, n)

\* C23 witness: a walk has returned from a tree whose root has two children,
\* the first with a child of its own, having been handed all four nodes.
C23_Witness ==
    /\ WalkDone /\ trav.skipped = {} /\ Len(trav.seen) = MaxWalkNodes
    /\ Len(trav.kids[1]) = 2 /\ Len(trav.kids[2]) = 1
    /\ trav.seen # <<1, 2, 3, 4>>

\* ================================================================= ExtSpec
\* SpanMap::extend_map on its own: a table of any contents is grown for any
\* id.  The indexed writes that follow it in add_span and add_local_map fill
\* the table between calls.

\* Self::extend_map(&mut writer, id).  The history keeps the table as it was.
ExtGrow(id) ==
    /\ table' = ExtendMap(table, id)
    /\ outcome' = [op |-> "extend", fail |-> "none", id |-> id, before |-> table]
    /\ UNCHANGED <<counter, debug, issued, lists, pool, editVars, spanVars>>

\* writer[id.to_usize()] = span, on a slot the table has.
ExtStore(id, span) ==
    /\ InBounds(table, id) /\ id # NullId
    /\ table' = Store(table, id, span)
    /\ outcome' = NoOutcome
    /\ UNCHANGED <<counter, debug, issued, lists, pool, editVars, spanVars>>

ExtNext ==
    \/ \E id \in 0..MaxExtId : ExtGrow(id)
    \/ \E id \in 0..MaxExtId, span \in InputSpans : ExtStore(id, span)

ExtSpec == Init /\ [][ExtNext]_vars

\* ===================================================== claims under ExtSpec
\* C24: after extend_map(id) the table is as long as the larger of its old
\* length and id + 1, every old slot holds what it held, every new slot holds
\* the null span, and a table that covered id already is unchanged.
C24_ExtendMapGrowsToCover ==
    outcome.op = "extend" =>
        /\ Len(table) = Max(Len(outcome.before), outcome.id + 1)
        /\ \A i \in 1..Len(outcome.before) : table[i] = outcome.before[i]
        /\ \A i \in (Len(outcome.before) + 1)..Len(table) : table[i] = SpanNull
        /\ InBounds(outcome.before, outcome.id) => table = outcome.before

\* C24 witness: a table holding a stored span was grown by two slots.
C24_Witness ==
    /\ outcome.op = "extend" /\ Len(table) = Len(outcome.before) + 2
    /\ \E i \in 1..Len(outcome.before) : outcome.before[i] # SpanNull

\* ================================================================ EditSpec
\* One thread parses a file and edits the lists it builds: it reserves the ids
\* of its nodes in a LocalSpanMap, wraps nodes in lists (new, empty, with_id),
\* inserts nodes, sets list spans, commits the map and drops lists.

\* The SourceId of the file the thread parses.
EditSource == 1

\* Spans given to AstNodes::new / AstNodes::empty here, and to set_span.
NewSpans == {Span(<<1, 2>>, 0), SpanNull}
SetSpans == {Span(<<0, 2>>, 1)}

\* The ids the thread's LocalSpanMap holds.
LocalIds == {lbuf[k][1] : k \in 1..Len(lbuf)}

\* LocalSpanMap::add(range): the id goes to a new AstNode { body, id }.
EdReserve ==
    /\ Running /\ counter <= MaxEditId
    /\ LET id == NewId
       IN  /\ counter' = CounterAfterNew
           /\ issued' = Append(issued, id)
           /\ lbuf' = Append(lbuf, <<id, <<Len(lbuf), Len(lbuf) + 1>>>>)
           /\ pool' = Append(pool, id)
    /\ outcome' = NoOutcome
    /\ UNCHANGED <<table, debug, lists, tree, iter, spanVars>>

\* The table SpanMap::add_local_map(local) leaves.  The ids of one thread's map
\* increase, so after extend_map(last key) every write is in bounds.
AddLocalMap(tbl, map, src) ==
    IF map = <<>> THEN tbl
    ELSE LET ext == ExtendMap(tbl, map[Len(map)][1])
         IN  [i \in 1..Len(ext) |->
                IF \E k \in 1..Len(map) : map[k][1] + 1 = i
                THEN Span(map[CHOOSE k \in 1..Len(map) : map[k][1] + 1 = i][2], src)
                ELSE ext[i]]

\* SpanMap::add_local_map(local): the map is moved in and gone afterwards.
EdCommit ==
    /\ Running /\ lbuf # <<>>
    /\ table' = AddLocalMap(table, lbuf, EditSource)
    /\ lbuf' = <<>>
    /\ outcome' = NoOutcome
    /\ UNCHANGED <<counter, debug, issued, lists, pool, tree, iter, spanVars>>

\* AstNodes::new(nodes, span) in this thread.
EdNew(h, span) == counter <= MaxEditId /\ NewList(h, span)

\* AstNodes::with_id(nodes, id): id is any id issued so far.
WithId(h, id) ==
    /\ Running /\ id < counter
    /\ ~lists[h].alive /\ \A g \in 1..(h - 1) : lists[g].alive
    /\ lists' = Set(lists, h, [alive |-> TRUE, nodes |-> pool, id |-> id])
    /\ pool' = <<>>
    /\ outcome' = [op |-> "with_id", fail |-> "none", self |-> h]
    /\ UNCHANGED <<counter, table, debug, issued, spanVars, editVars>>

\* SpanMap::update_span(id, span): how it ends, and the table it leaves.
UpdateSpan_Grow(tbl, id, span) ==
    [fail |-> "none", table |-> Store(ExtendMap(tbl, id), id, span)]

UpdateSpan(tbl, id, span) ==
    IF ~InBounds(tbl, id) THEN [fail |-> "index_out_of_bounds", table |-> tbl]
    ELSE [fail |-> "none", table |-> Store(tbl, id, span)]

\* AstNodes::set_span(&mut self, span).
SetSpan(h, span) ==
    /\ Running /\ lists[h].alive
    /\ LET r == UpdateSpan(table, lists[h].id, span)
       IN  /\ table' = r.table
           /\ outcome' = [op |-> "set_span", fail |-> r.fail, self |-> h,
                          span |-> span]
    /\ UNCHANGED <<counter, debug, issued, lists, pool, spanVars, editVars>>

\* Vec::insert(index, item): item goes to position index (from 0), the nodes
\* from there on move up by one.
InsertAt_Push(nodes, item, index) == Append(nodes, item)

InsertAt(nodes, item, index) ==
    SubSeq(nodes, 1, index) \o <<item>> \o SubSeq(nodes, index + 1, Len(nodes))

\* AstNodes::insert(&mut self, item, index): the item is the oldest node not
\* yet in a list; Vec::insert panics when index > len.
Insert(h, index) ==
    /\ Running /\ lists[h].alive /\ pool # <<>>
    /\ index <= Len(lists[h].nodes) + 1
    /\ LET ok == index <= Len(lists[h].nodes)
       IN  /\ lists' = IF ok
                       THEN [lists EXCEPT ![h].nodes = InsertAt(@, Head(pool), index)]
                       ELSE lists
           /\ outcome' = [op |-> "insert",
                          fail |-> IF ok THEN "none" ELSE "insert_out_of_bounds",
                          self |-> h, index |-> index]
    /\ pool' = Tail(pool)
    /\ UNCHANGED <<counter, table, debug, issued, spanVars, editVars>>

EditNext ==
    \/ EdReserve
    \/ EdCommit
    \/ \E h \in Handles, span \in NewSpans : EdNew(h, span)
    \/ \E h \in Handles, id \in 1..MaxEditId : WithId(h, id)
    \/ \E h \in Handles, span \in SetSpans : SetSpan(h, span)
    \/ \E h \in Handles, index \in 0..MaxEditId : Insert(h, index)
    \/ \E h \in Handles : DropList(h)

\* Nothing in this thread calls span_of, so the build's debug assertions play
\* no part; the build is fixed to one with them.
EditInit == Init /\ debug

EditSpec == EditInit /\ [][EditNext]_vars

\* =============================================================== CloneSpec
\* One thread builds lists and clones them: AstNode and AstNodes derive Clone,
\* so a clone is a field-by-field copy.  The thread also sets list spans,
\* merges lists and drops them.  A third handle lets a list, its clone and a
\* list merged into one of them be alive together.
CloneHandles == {1, 2, 3}

\* Spans given to AstNodes::new here: neighbours on the source of NodeSpan.
CloneSpans == {Span(<<0, 1>>, 1), Span(<<1, 2>>, 1)}

\* The nodes the lists of handles 1..n hold.
RECURSIVE NodesUpTo(_)
NodesUpTo(n) == IF n = 0 THEN 0 ELSE Len(lists[n].nodes) + NodesUpTo(n - 1)
\* All nodes alive: those in lists and those not yet in one.
TotalNodes == Len(pool) + NodesUpTo(Cardinality(CloneHandles))

\* #[derive(Clone)] on AstNode: body is cloned, id is copied.
CloneOfNode(node) == node

\* #[derive(Clone)] on AstNodes: every node is cloned, id is copied.
CloneOf_Fresh(list) == [list EXCEPT !.id = counter]

CloneOf(list) == [list EXCEPT !.nodes = [k \in 1..Len(@) |-> CloneOfNode(@[k])]]

\* Hunk::create(span) in this thread.
ClCreateNode ==
    /\ counter <= MaxCloneId /\ TotalNodes < MaxCloneNodes
    /\ CreateNode

\* AstNodes::new(nodes, span) in this thread.
ClNew(h, span) == counter <= MaxCloneId /\ NewList(h, span)

\* node.clone() of the newest node not yet in a list.
CloneNode ==
    /\ Running /\ pool # <<>> /\ TotalNodes < MaxCloneNodes
    /\ pool' = Append(pool, CloneOfNode(pool[Len(pool)]))
    /\ outcome' = [op |-> "clone_node", fail |-> "none"]
    /\ UNCHANGED <<counter, table, debug, issued, lists, spanVars, editVars>>

\* list.clone(): the clone takes the first free handle g.
CloneList(h, g) ==
    /\ Running /\ lists[h].alive
    /\ TotalNodes + Len(lists[h].nodes) <= MaxCloneNodes
    /\ ~lists[g].alive /\ \A f \in 1..(g - 1) : lists[f].alive
    /\ lists' = Set(lists, g, CloneOf(lists[h]))
    /\ outcome' = [op |-> "clone", fail |-> "none", self |-> g, from |-> h]
    /\ UNCHANGED <<counter, table, debug, issued, pool, spanVars, editVars>>

CloneNext ==
    \/ ClCreateNode
    \/ CloneNode
    \/ \E h \in CloneHandles, span \in CloneSpans : ClNew(h, span)
    \/ \E h, g \in CloneHandles : CloneList(h, g)
    \/ \E h \in CloneHandles, span \in SetSpans : SetSpan(h, span)
    \/ \E a, b \in CloneHandles : Merge(a, b)
    \/ \E h \in CloneHandles : DropList(h)

CloneInit == InitWith(CloneHandles, NoVisitors)

CloneSpec == CloneInit /\ [][CloneNext]_vars

\* ==================================================== claims under CloneSpec
\* The alive lists other than h that carry the id of list h.
Sharing(h) ==
    {g \in CloneHandles \ {h} : lists[g].alive /\ lists[g].id = lists[h].id}

\* C28: cloning a node or a list issues no id and writes no table entry, and
\* the clone carries the id (and the nodes' ids) of the original; after a
\* set_span or a merge through one list, every other alive list with the same
\* id resolves to the span that call stored.
C28_CloneSharesId ==
    [][/\ outcome'.op = "clone_node" =>
            /\ counter' = counter /\ issued' = issued /\ table' = table
            /\ pool'[Len(pool')] = pool[Len(pool)]
       /\ outcome'.op = "clone" =>
            /\ counter' = counter /\ issued' = issued /\ table' = table
            /\ lists'[outcome'.self].alive
            /\ lists'[outcome'.self].id = lists[outcome'.from].id
            /\ lists'[outcome'.self].nodes = lists[outcome'.from].nodes
            /\ lists'[outcome'.from] = lists[outcome'.from]
            /\ SpanOf(table', lists'[outcome'.self].id)
                 = SpanOf(table', lists'[outcome'.from].id)
       /\ (outcome'.op = "set_span" /\ outcome'.fail = "none") =>
            \A g \in CloneHandles :
                (lists'[g].alive /\ lists'[g].id = lists[outcome'.self].id) =>
                    At(table', lists'[g].id) = outcome'.span
       /\ (outcome'.op = "merge" /\ outcome'.fail = "none") =>
            \A g \in CloneHandles :
                (lists'[g].alive /\ lists'[g].id = lists[outcome'.self].id) =>
                    At(table', lists'[g].id)
                      = SpanJoin(outcome'.s1, outcome'.s2).span]_vars

\* C28 witness: a merge through one list has just changed the span that
\* another alive list with the same id, its clone or its original, resolves.
C28_Witness ==
    /\ outcome.op = "merge" /\ outcome.fail = "none"
    /\ Sharing(outcome.self) # {}
    /\ \A g \in Sharing(outcome.self) :
        /\ SpanOf(table, lists[g].id).fail = "none"
        /\ SpanOf(table, lists[g].id).span # outcome.s1

\* ================================================================ WalkSpec
\* find_files_in_paths: the parallel walker builds one FilesVisitor per
\* thread, hands every directory entry or walk error to one of them, and
\* drops each visitor when its thread is done; the drop merges the visitor's
\* results into WalkFilesState.merged under the mutex.  finish runs once
\* walker.visit has returned, that is when every visitor has been dropped.

\* An entry the walker can hand to visit: its depth, whether its path has a
\* file name, whether the exclude set is empty, whether that set matches the
\* full path and whether it matches the file name (an empty set matches
\* nothing), whether the entry is a directory (or of unknown type), and
\* whether the include set matches its path.
WalkEntries ==
    {r \in [ok : {TRUE}, depth : {0, 1, 2}, named : BOOLEAN,
            exEmpty : BOOLEAN, pathEx : BOOLEAN, baseEx : BOOLEAN,
            dir : BOOLEAN, included : BOOLEAN] :
        r.exEmpty => (~r.pathEx /\ ~r.baseEx)}
\* Err(err): a walk error has no entry; the entry fields are placeholders.
WalkError ==
    [ok |-> FALSE, depth |-> 0, named |-> FALSE, exEmpty |-> TRUE,
     pathEx |-> FALSE, baseEx |-> FALSE, dir |-> FALSE, included |-> FALSE]
\* What the walker can hand to visit: Ok(entry) or Err(err).
WalkResults == WalkEntries \cup {WalkError}

\* The variables no step of the file walk touches.
walkFrame ==
    <<counter, table, debug, issued, lists, pool, editVars, pc, buf, bufSrc,
      bufOpen, arg, owned, failure, resv, lock, trav, workVars>>

\* match_candidate_exclusion(file_path, file_basename, exclusion).
MatchCandidateExclusion_BasenameOnly(exEmpty, pathEx, baseEx) ==
    IF exEmpty THEN FALSE ELSE baseEx

MatchCandidateExclusion(exEmpty, pathEx, baseEx) ==
    IF exEmpty THEN FALSE ELSE pathEx \/ baseEx

\* The WalkState visit returns.
VisitState(r) ==
    IF /\ r.ok /\ r.depth > 0
       /\ (~r.named \/ MatchCandidateExclusion(r.exEmpty, r.pathEx, r.baseEx))
    THEN "Skip"
    ELSE "Continue"

\* The ResolvedFile visit makes of an entry it did not skip, if any.
Resolved_IncludedOnly(r) ==
    IF r.dir THEN "None"
    ELSE IF r.included THEN "Nested"
    ELSE "None"

Resolved(r) ==
    IF r.dir THEN "None"
    ELSE IF r.depth = 0 THEN "Root"
    ELSE IF r.included THEN "Nested"
    ELSE "None"

\* local_files after visit(result); n stands for the path or the error.
LocalAfterVisit(files, r, n) ==
    IF VisitState(r) = "Skip" THEN files
    ELSE IF ~r.ok THEN Append(files, [kind |-> "Err", n |-> n])
    ELSE IF Resolved(r) = "None" THEN files
    ELSE Append(files, [kind |-> Resolved(r), n |-> n])

\* FilesVisitorBuilder::build.
WkBuild(v) ==
    /\ visitors[v].st = "unbuilt" /\ ~finished.done
    /\ visitors' = Set(visitors, v, [st |-> "live", files |-> <<>>,
                                     error |-> "ok", took |-> <<>>,
                                     threw |-> "ok"])
    /\ outcome' = NoOutcome
    /\ UNCHANGED <<merged, walked, finished, walkFrame>>

\* FilesVisitor::visit(result) for the walker's next result.
WkVisit(v, r) ==
    /\ visitors[v].st = "live" /\ walked < MaxWalk
    /\ walked' = walked + 1
    /\ visitors' = [visitors EXCEPT
                       ![v].files = LocalAfterVisit(@, r, walked + 1)]
    /\ outcome' = [op |-> "visit", fail |-> "none", state |-> VisitState(r)]
    /\ UNCHANGED <<merged, finished, walkFrame>>

\* drop: self.global.merged.lock().unwrap()
WkLock(v) ==
    /\ visitors[v].st = "live" /\ ~merged.locked
    /\ merged' = [merged EXCEPT !.locked = TRUE]
    /\ visitors' = [visitors EXCEPT ![v].st = "d_files"]
    /\ outcome' = NoOutcome
    /\ UNCHANGED <<walked, finished, walkFrame>>

\* drop: the merged list takes the local list if it is empty, and is appended
\* to otherwise.
MergedFiles_Replace(files, local) == local

MergedFiles(files, local) == IF files = <<>> THEN local ELSE files \o local

\* drop: std::mem::take(&mut self.local_files) into the merged list.
WkMergeFiles(v) ==
    /\ visitors[v].st = "d_files"
    /\ merged' = [merged EXCEPT !.files = MergedFiles(@, visitors[v].files)]
    /\ visitors' = [visitors EXCEPT ![v].st = "d_error", ![v].files = <<>>,
                                    ![v].took = visitors[v].files]
    /\ outcome' = NoOutcome
    /\ UNCHANGED <<walked, finished, walkFrame>>

\* drop: if error.is_ok() { *error = local_error; }
MergedError_Last(slot, local) == local

MergedError(slot, local) == IF slot = "ok" THEN local ELSE slot

\* drop: the local error is moved into the shared slot if that holds none;
\* the mutex guard goes out of scope.
WkMergeError(v) ==
    /\ visitors[v].st = "d_error"
    /\ merged' = [merged EXCEPT !.error = MergedError(@, visitors[v].error),
                                !.locked = FALSE]
    /\ visitors' = [visitors EXCEPT ![v].st = "dropped", ![v].error = "ok",
                                    ![v].threw = visitors[v].error]
    /\ outcome' = NoOutcome
    /\ UNCHANGED <<walked, finished, walkFrame>>

\* What finish returns for the pair taken out of the mutex.
FinishResult(files, error) ==
    IF error # "ok"
    THEN [done |-> TRUE, ok |-> FALSE, files |-> <<>>, error |-> error]
    ELSE [done |-> TRUE, ok |-> TRUE, files |-> files, error |-> "ok"]

\* WalkFilesState::finish(self), after walker.visit has returned.
WkFinish ==
    /\ ~finished.done /\ \A v \in Visitors : visitors[v].st = "dropped"
    /\ finished' = FinishResult(merged.files, merged.error)
    /\ outcome' = NoOutcome
    /\ UNCHANGED <<visitors, merged, walked, walkFrame>>

WalkNext ==
    \/ \E v \in Visitors : WkBuild(v)
    \/ \E v \in Visitors, r \in WalkResults : WkVisit(v, r)
    \/ \E v \in Visitors : WkLock(v)
    \/ \E v \in Visitors : WkMergeFiles(v)
    \/ \E v \in Visitors : WkMergeError(v)
    \/ WkFinish

WalkSpec == Init /\ [][WalkNext]_vars

\* ===================================================== claims under WalkSpec
\* Every FilesVisitor has been dropped.
AllDropped == \A v \in Visitors : visitors[v].st = "dropped"
\* The orders in which the visitors can have been dropped.
DropOrders ==
    {o \in [1..Cardinality(Visitors) -> Visitors] :
        \A i, j \in DOMAIN o : o[i] = o[j] => i = j}
\* The lists the first k visitors of order o handed over, end to end.
RECURSIVE TookInOrder(_, _)
TookInOrder(o, k) ==
    IF k = 0 THEN <<>> ELSE TookInOrder(o, k - 1) \o visitors[o[k]].took

\* C29: once every visitor has been dropped, the merged list is the visitors'
\* local lists end to end in some order of the visitors, so every entry a
\* visitor collected is there once, next to the visitor's other entries and in
\* the order the visitor collected them.
C29_MergedHoldsEachOnce ==
    AllDropped =>
        /\ \E o \in DropOrders :
              merged.files = TookInOrder(o, Cardinality(Visitors))
        /\ \A i, j \in 1..Len(merged.files) :
              merged.files[i].n = merged.files[j].n => i = j
        /\ \A v \in Visitors : \A i, j \in 1..Len(visitors[v].took) :
              i < j => visitors[v].took[i].n < visitors[v].took[j].n

\* C29 witness: one visitor collected two entries and another collected one
\* in between, and the visitor that collected the first entry was dropped last.
C29_Witness ==
    /\ AllDropped
    /\ \E v, u \in Visitors :
        /\ Len(visitors[v].took) = 2 /\ Len(visitors[u].took) = 1
        /\ visitors[v].took[1].n < visitors[u].took[1].n
        /\ visitors[u].took[1].n < visitors[v].took[2].n
        /\ merged.files = visitors[u].took \o visitors[v].took

\* ============================================================ ClassifySpec
\* FilesVisitor::visit on its own: the visitors are built and handed results;
\* none is dropped.

\* FilesVisitor::visit(result), for a walk of at most MaxClassify results.
ClVisit(v, r) == walked < MaxClassify /\ WkVisit(v, r)

ClassifyNext ==
    \/ \E v \in Visitors : WkBuild(v)
    \/ \E v \in Visitors, r \in WalkResults : ClVisit(v, r)

ClassifySpec == Init /\ [][ClassifyNext]_vars

\* ================================================= claims under ClassifySpec
\* The step is visit(r) of visitor v.
Visited(v, r) ==
    /\ outcome'.op = "visit" /\ outcome'.state = VisitState(r)
    /\ visitors[v].st = "live"
    /\ visitors'[v].files = LocalAfterVisit(visitors[v].files, r, walked + 1)
    /\ \A u \in Visitors \ {v} : visitors'[u] = visitors[u]
\* The entry visit has pushed for the walker's current result.
Pushed(kind) == [kind |-> kind, n |-> walked + 1]
\* The exclusion check of visit sends entry r back with Skip.
Skipped(r) == r.depth > 0 /\ (~r.named \/ r.pathEx \/ r.baseEx)

\* C31 as stated: a directory is never recorded, a non-directory at depth 0 is
\* always recorded as Root, and a non-directory at depth greater than 0 is
\* recorded as Nested exactly when its path matches the include set.
C31_NestedIffIncluded ==
    [][\A v \in Visitors, r \in WalkResults : (Visited(v, r) /\ r.ok) =>
          /\ r.dir => visitors'[v].files = visitors[v].files
          /\ (~r.dir /\ r.depth = 0) =>
                visitors'[v].files = Append(visitors[v].files, Pushed("Root"))
          /\ (~r.dir /\ r.depth > 0) =>
                IF r.included
                THEN visitors'[v].files
                       = Append(visitors[v].files, Pushed("Nested"))
                ELSE visitors'[v].files = visitors[v].files]_vars

\* C31: a directory is never recorded, a non-directory at depth 0 is always
\* recorded as Root, and a non-directory at depth greater than 0 is recorded
\* as Nested exactly when its path matches the include set and the exclusion
\* check has not skipped it.
C31_ClassifiesByDepthAndKind ==
    [][\A v \in Visitors, r \in WalkResults : (Visited(v, r) /\ r.ok) =>
          /\ r.dir => visitors'[v].files = visitors[v].files
          /\ (~r.dir /\ r.depth = 0) =>
                visitors'[v].files = Append(visitors[v].files, Pushed("Root"))
          /\ (~r.dir /\ r.depth > 0) =>
                IF r.included /\ ~Skipped(r)
                THEN visitors'[v].files
                       = Append(visitors[v].files, Pushed("Nested"))
                ELSE visitors'[v].files = visitors[v].files]_vars

\* C31 witness: one visitor recorded the first result as Nested, and the
\* other the second result as Root.
C31_Witness ==
    /\ outcome.op = "visit" /\ walked = 2
    /\ \E v, u \in Visitors :
          /\ visitors[v].files = <<[kind |-> "Nested", n |-> 1]>>
          /\ visitors[u].files = <<[kind |-> "Root", n |-> 2]>>

\* C32: visit returns Skip and records nothing for an entry at depth greater
\* than 0 that has no file name or whose path or file name the exclude set
\* matches; for every other result it returns Continue, and for a walk error
\* it appends an Err entry to the local list.
C32_SkipsExcludedKeepsErrors ==
    [][\A v \in Visitors, r \in WalkResults : Visited(v, r) =>
          /\ (r.ok /\ Skipped(r)) =>
                /\ outcome'.state = "Skip"
                /\ visitors'[v].files = visitors[v].files
          /\ ~(r.ok /\ Skipped(r)) => outcome'.state = "Continue"
          /\ ~r.ok =>
                visitors'[v].files
                  = Append(visitors[v].files, Pushed("Err"))]_vars

\* C32 witness: a visitor holds the Err entry of the first result, the walk
\* went on to a second result, and that visit returned Skip and left no entry.
C32_Witness ==
    /\ outcome.op = "visit" /\ outcome.state = "Skip" /\ walked = 2
    /\ \E v \in Visitors : visitors[v].files = <<[kind |-> "Err", n |-> 1]>>
    /\ \A v \in Visitors : Len(visitors[v].files) <= 1

\* ================================================================ DropSpec
\* Drop for FilesVisitor and WalkFilesState::finish on their own: visitors
\* with any local_files and any local_error are dropped in any order, then
\* finish is called.

\* Values of a Result<()>: Ok(()) or one of two errors.
WalkErrors == {"ok", "e1", "e2"}
\* The local_files of the visitors dropped here.
DropFiles == {<<>>, <<[kind |-> "Root", n |-> 1]>>}

\* Both visitors alive, with any of these fields.
LiveVisitors ==
    [Visitors -> [st : {"live"}, files : DropFiles, error : WalkErrors,
                  took : {<<>>}, threw : {"ok"}]]

DropNext ==
    \/ \E v \in Visitors : WkLock(v)
    \/ \E v \in Visitors : WkMergeFiles(v)
    \/ \E v \in Visitors : WkMergeError(v)
    \/ WkFinish

DropInit == InitWith(Handles, LiveVisitors)

DropSpec == DropInit /\ [][DropNext]_vars

\* ===================================================== claims under DropSpec
\* The local errors the dropped visitors handed over.
Thrown == {visitors[v].threw : v \in Visitors} \ {"ok"}

\* C30: a drop leaves an error in the shared slot as it is and puts its local
\* error into a slot that holds none; finish returns the slot's error if a
\* dropped visitor had a local error, and the merged list otherwise.
C30_FirstErrorKept ==
    /\ [][/\ merged.error # "ok" => merged'.error = merged.error
          /\ \A v \in Visitors :
                (visitors[v].st = "d_error" /\ visitors'[v].st = "dropped"
                     /\ merged.error = "ok")
                    => merged'.error = visitors[v].error]_vars
    /\ [](finished.done =>
            IF Thrown # {}
            THEN /\ ~finished.ok
                 /\ finished.error = merged.error
                 /\ finished.error \in Thrown
            ELSE /\ finished.ok
                 /\ finished.files = merged.files)

\* C30 witness: two visitors were dropped with different errors and finish
\* returned the one merged first.
C30_Witness ==
    /\ finished.done /\ ~finished.ok
    /\ \E v, u \in Visitors :
        /\ visitors[v].threw = finished.error
        /\ visitors[u].threw \notin {"ok", finished.error}

\* ================================================================ FindSpec
\* The check command: check(files, settings) calls find_files_in_paths, which
\* normalizes the given paths, drops the excluded ones if force_exclude is
\* set, and walks the rest.  One call runs at a time; the parallel walk is
\* WalkSpec's and is one step here.

\* The paths a user can give: two spellings of /r/a, and /r/b.
RawPaths == {"a", "./a", "b"}
\* fs::normalize_path: the absolute path, here named by its last component.
NormalizePath(p) == IF p = "./a" THEN "a" ELSE p
\* Path::ancestors of a normalized path, from the path itself up to the file
\* system root, which has no file name.
Ancestors(p) == <<p, "r", "/">>
HasFileName(p) == p # "/"
\* The paths a pattern set of the settings can match.
Matchable == {"a", "b", "r"}

\* The argument lists of at most n paths.
PathLists(n) == UNION {[1..k -> RawPaths] : k \in 0..n}

\* Iterator::unique: the first occurrence of every element, in order.
RECURSIVE Unique(_)
Unique(ps) ==
    IF ps = <<>> THEN <<>>
    ELSE LET front == Unique(SubSeq(ps, 1, Len(ps) - 1))
             last == ps[Len(ps)]
         IN  IF \E i \in 1..Len(front) : front[i] = last THEN front
             ELSE Append(front, last)

\* paths.iter().map(fs::normalize_path).unique().collect()
Normalized(ps) == Unique([i \in 1..Len(ps) |-> NormalizePath(ps[i])])

\* is_file_excluded(path, resolver), from the k-th ancestor on: the first
\* ancestor that exclude or user_exclude matches excludes the path; the loop
\* ends at an ancestor without a file name.
RECURSIVE ExcludedFrom(_, _, _, _)
ExcludedFrom(anc, k, ex, uex) ==
    IF k > Len(anc) THEN FALSE
    ELSE IF ~HasFileName(anc[k]) THEN FALSE
    ELSE IF anc[k] \in ex THEN TRUE
    ELSE IF anc[k] \in uex THEN TRUE
    ELSE ExcludedFrom(anc, k + 1, ex, uex)

\* is_file_excluded(path, resolver).
IsFileExcluded_SelfByExclude(p, ex, uex) == p \in ex

IsFileExcluded(p, ex, uex) == ExcludedFrom(Ancestors(p), 1, ex, uex)

\* Vec::retain(|path| !is_file_excluded(path, &resolver)): the paths kept, in
\* order.
RECURSIVE Retained(_, _, _)
Retained(ps, ex, uex) ==
    IF ps = <<>> THEN <<>>
    ELSE LET front == Retained(SubSeq(ps, 1, Len(ps) - 1), ex, uex)
             last == ps[Len(ps)]
         IN  IF IsFileExcluded(last, ex, uex) THEN front
             ELSE Append(front, last)

\* The variables no step of the check command touches.
findFrame ==
    <<counter, table, debug, issued, lists, pool, outcome, editVars, pc, buf,
      bufSrc, bufOpen, arg, owned, failure, resv, lock, trav, visitors, merged,
      walked, finished, members, memberMap, added>>

\* check(files, settings) is called and calls find_files_in_paths.
FindCall(raw, force, ex, uex) ==
    /\ run.pc = "idle"
    /\ run' = [pc |-> "normalize", raw |-> raw, force |-> force, ex |-> ex,
               uex |-> uex, paths |-> <<>>, walks |-> 0,
               result |-> [kind |-> "none"], diag |-> [kind |-> "none"]]
    /\ UNCHANGED findFrame

\* The paths are normalized and made unique.
FindNormalize ==
    /\ run.pc = "normalize"
    /\ run' = [run EXCEPT !.pc = "filter", !.paths = Normalized(run.raw)]
    /\ UNCHANGED findFrame

\* if resolver.force_exclude() { paths.retain(..); if paths.is_empty() {
\* return Ok(vec![]); } }
FindFilter ==
    /\ run.pc = "filter"
    /\ LET kept == IF run.force THEN Retained(run.paths, run.ex, run.uex)
                   ELSE run.paths
       IN  run' = IF run.force /\ kept = <<>>
                  THEN [run EXCEPT !.pc = "returned", !.paths = kept,
                                   !.result = [kind |-> "ok", files |-> <<>>]]
                  ELSE [run EXCEPT !.pc = "split", !.paths = kept]
    /\ UNCHANGED findFrame

\* paths.split_first().ok_or_else(|| anyhow!(..))?
FindSplit ==
    /\ run.pc = "split"
    /\ run' = IF run.paths = <<>>
              THEN [run EXCEPT !.pc = "returned",
                               !.result = [kind |-> "err"]]
              ELSE [run EXCEPT !.pc = "walk"]
    /\ UNCHANGED findFrame

\* The walker is built over the paths and run, and state.finish() is
\* returned: found says whether the walk met any file.
FindWalk(found) ==
    /\ run.pc = "walk"
    /\ run' = [run EXCEPT !.pc = "returned", !.walks = @ + 1,
                          !.result = [kind |-> "ok",
                                      files |-> IF found THEN run.paths
                                                ELSE <<>>]]
    /\ UNCHANGED findFrame

\* What check makes of the value find_files_in_paths returned.
CheckResult(result) ==
    IF result.kind = "err" THEN [kind |-> "err"]
    ELSE IF result.files = <<>> THEN [kind |-> "ok", diagnostics |-> "default"]
    ELSE [kind |-> "ok", diagnostics |-> "default"]

\* check returns.
CheckReturn ==
    /\ run.pc = "returned"
    /\ run' = [run EXCEPT !.pc = "checked", !.diag = CheckResult(run.result)]
    /\ UNCHANGED findFrame

FindNext ==
    \/ \E raw \in PathLists(MaxPaths), force \in BOOLEAN,
          ex \in SUBSET Matchable, uex \in SUBSET Matchable :
            FindCall(raw, force, ex, uex)
    \/ FindNormalize
    \/ FindFilter
    \/ FindSplit
    \/ \E found \in BOOLEAN : FindWalk(found)
    \/ CheckReturn

FindSpec == Init /\ [][FindNext]_vars

\* ===================================================== claims under FindSpec
\* find_files_in_paths has returned.
Returned == run.pc \in {"returned", "checked"}
\* Every path given to the call is excluded.
AllExcluded ==
    \A i \in 1..Len(run.raw) :
        \E k \in 1..3 :
            /\ Ancestors(NormalizePath(run.raw[i]))[k] \in run.ex \cup run.uex
            /\ HasFileName(Ancestors(NormalizePath(run.raw[i]))[k])

\* C33: find_files_in_paths returns Ok with no files, and has not walked,
\* when force_exclude is set and every given path is excluded; it returns an
\* error, and has not walked, when no path is given and force_exclude is not
\* set; and check returns the default diagnostics whenever the files returned
\* are none.
C33_EarlyReturns ==
    /\ Returned =>
        /\ (run.force /\ AllExcluded) =>
              (run.result = [kind |-> "ok", files |-> <<>>] /\ run.walks = 0)
        /\ (run.raw = <<>> /\ ~run.force) =>
              (run.result.kind = "err" /\ run.walks = 0)
    /\ run.pc = "checked" =>
        /\ (run.result.kind = "ok" /\ run.result.files = <<>>) =>
              run.diag = [kind |-> "ok", diagnostics |-> "default"]
        /\ run.result.kind = "err" => run.diag.kind = "err"

\* C33 witness: two spellings of one path and another path were given with
\* force_exclude set, a user exclusion matched one and an exclusion of the
\* parent directory the other, and check returned the default diagnostics.
C33_Witness ==
    /\ run.pc = "checked" /\ run.force /\ Len(run.raw) = 2
    /\ run.raw[1] # run.raw[2]
    /\ run.ex # {} /\ run.uex # {} /\ "r" \notin run.ex \cap run.uex
    /\ AllExcluded /\ run.paths = <<>> /\ run.walks = 0
    /\ run.diag = [kind |-> "ok", diagnostics |-> "default"]

\* ============================================================== MemberSpec
\* One thread owns a WorkspaceMembers: it adds members under paths and looks
\* members up by path and by id.

\* The Member values added.
Members == {"m1", "m2"}
\* Option<&Member>.
None == [some |-> FALSE]
Some(m) == [some |-> TRUE, member |-> m]

\* IndexVec::push(member): the MemberId of the new last element.
PushedId(ms) == Len(ms)
\* IndexVec::get(id).
MemberAt(ms, id) ==
    IF id >= 0 /\ id < Len(ms) THEN Some(ms[id + 1]) ELSE None

\* HashMap::insert(path, id): the entry of path is set, or replaced.
Inserted_KeepFirst(map, path, id) ==
    IF map[path] = NoMember THEN [map EXCEPT ![path] = id] ELSE map

Inserted(map, path, id) == [map EXCEPT ![path] = id]

\* WorkspaceMembers::get_member_by_path(path).
MemberByPath(map, ms, path) ==
    IF map[path] = NoMember THEN None ELSE MemberAt(ms, map[path])

\* The variables no call on the WorkspaceMembers touches.
memberFrame ==
    <<counter, table, debug, issued, lists, pool, editVars, pc, buf, bufSrc,
      bufOpen, arg, owned, failure, resv, lock, trav, visitors, merged,
      walked, finished, run>>

\* WorkspaceMembers::add_member(path, member).
AddMember(path, m) ==
    /\ Len(members) < MaxMembers
    /\ LET id == PushedId(members)
       IN  /\ members' = Append(members, m)
           /\ memberMap' = Inserted(memberMap, path, id)
           /\ added' = Append(added, [path |-> path, member |-> m, id |-> id])
           /\ outcome' = [op |-> "add_member", fail |-> "none", id |-> id]
    /\ UNCHANGED memberFrame

\* WorkspaceMembers::get_member_by_path(path).
GetMemberByPath(path) ==
    /\ outcome' = [op |-> "get_member_by_path", fail |-> "none",
                   path |-> path,
                   got |-> MemberByPath(memberMap, members, path)]
    /\ UNCHANGED <<members, memberMap, added, memberFrame>>

\* WorkspaceMembers::get_member_by_id(id).
GetMemberById(id) ==
    /\ outcome' = [op |-> "get_member_by_id", fail |-> "none", id |-> id,
                   got |-> MemberAt(members, id)]
    /\ UNCHANGED <<members, memberMap, added, memberFrame>>

MemberNext ==
    \/ \E path \in MemberPaths, m \in Members : AddMember(path, m)
    \/ \E path \in MemberPaths : GetMemberByPath(path)
    \/ \E id \in 0..MaxMembers : GetMemberById(id)

MemberSpec == Init /\ [][MemberNext]_vars

\* =================================================== claims under MemberSpec
\* The add_member calls made under path, as positions of the history.
AddsUnder(path) == {k \in 1..Len(added) : added[k].path = path}
\* The last of a non-empty set of positions.
Latest(ks) == CHOOSE k \in ks : \A j \in ks : j <= k

\* C34: every member ever added is what get_member_by_id returns for the id
\* its add_member returned; get_member_by_path returns the member added last
\* under the path (none if there was no add under it); the ids returned are
\* distinct and increase in the order of the calls; and members are only
\* appended.
C34_MembersAppendOnly ==
    /\ [](/\ \A k \in 1..Len(added) :
                MemberAt(members, added[k].id) = Some(added[k].member)
          /\ \A k, j \in 1..Len(added) : k < j => added[k].id < added[j].id
          /\ \A path \in MemberPaths :
                MemberByPath(memberMap, members, path)
                  = IF AddsUnder(path) = {} THEN None
                    ELSE Some(added[Latest(AddsUnder(path))].member)
          /\ outcome.op = "get_member_by_id" =>
                outcome.got
                  = IF \E k \in 1..Len(added) : added[k].id = outcome.id
                    THEN Some(added[CHOOSE k \in 1..Len(added) :
                                        added[k].id = outcome.id].member)
                    ELSE None
          /\ outcome.op = "get_member_by_path" =>
                outcome.got
                  = IF AddsUnder(outcome.path) = {} THEN None
                    ELSE Some(added[Latest(AddsUnder(outcome.path))].member))
    /\ [][/\ Len(members') >= Len(members)
          /\ SubSeq(members', 1, Len(members)) = members]_vars

\* C34 witness: a second, different member was added under a path; a lookup
\* by the first id has just returned the first member while the path
\* resolves to the second.
C34_Witness ==
    /\ outcome.op = "get_member_by_id" /\ outcome.got.some
    /\ \E k, j \in 1..Len(added) :
        /\ k < j /\ added[k].path = added[j].path
        /\ added[k].member # added[j].member
        /\ j = Latest(AddsUnder(added[j].path))
        /\ outcome.id = added[k].id /\ outcome.got = Some(added[k].member)
        /\ MemberByPath(memberMap, members, added[k].path)
             = Some(added[j].member)

\* ================================================================ NodeSpec
\* One thread holds one AstNodes whose nodes carry payloads: it pushes nodes,
\* replaces payloads through AstNodeRefMut, and walks the list with
\* ast_ref_iter.  While an iterator is alive the list is borrowed, so nothing
\* else touches it.

\* Node payloads, and the closures passed to AstNodeRefMut::replace.
Bodies == {0, 1, 2}
Fns == {"succ", "zero"}
Apply(f, body) == IF f = "succ" THEN (body + 1) % Cardinality(Bodies) ELSE 0

\* AstNode { body, id }
AstNode(body, id) == [body |-> body, id |-> id]

\* AstNode::ast_ref(&self)
AstRef(node) == [view |-> "ref", body |-> node.body, id |-> node.id]

\* AstNode::ast_ref_mut(&mut self)
AstRefMut(node) == [view |-> "mut", body |-> node.body, id |-> node.id]

\* AstNodeRefMut::immutable(&self)
Immutable(m) == [view |-> "ref", body |-> m.body, id |-> m.id]

\* AstNode::with_body(&self, body)
NodeWithBody_NullId(node, body) == [view |-> "ref", body |-> body, id |-> NullId]

NodeWithBody(node, body) == [view |-> "ref", body |-> body, id |-> node.id]

\* AstNodeRef::with_body(&self, body)
RefWithBody(r, body) == [view |-> "ref", body |-> body, id |-> r.id]

\* The ways to derive a view from a node, and the view each gives.
ViewKinds == {"ast_ref", "ast_ref_mut", "with_body", "ref_with_body", "immutable"}
ViewOf(node, kind, body) ==
    CASE kind = "ast_ref" -> AstRef(node)
      [] kind = "ast_ref_mut" -> AstRefMut(node)
      [] kind = "with_body" -> NodeWithBody(node, body)
      [] kind = "ref_with_body" -> RefWithBody(AstRef(node), body)
      [] kind = "immutable" -> Immutable(AstRefMut(node))

\* replace_with_or_abort(self.body, f): the payload the view points at
\* afterwards.
ReplacedBody_Keep(body, f) == body

ReplacedBody(body, f) == Apply(f, body)

\* AstNode { body: Box::new(body), id: Hunk::create(span) }, pushed onto the
\* list's nodes.
PushNode(body) ==
    /\ Running /\ ~iter.on /\ counter <= MaxTreeId
    /\ LET id == NewId
       IN  /\ counter' = CounterAfterNew
           /\ issued' = Append(issued, id)
           /\ table' = AddSpan(table, id, NodeSpan)
           /\ tree' = Append(tree, AstNode(body, id))
    /\ iter' = NoIter
    /\ outcome' = NoOutcome
    /\ UNCHANGED <<debug, lists, pool, lbuf, spanVars>>

\* node.ast_ref_mut() on the i-th node, then replace(f), then immutable().
\* The history keeps the node as it was and the view immutable() returned.
Replace(i, f) ==
    /\ Running /\ ~iter.on /\ i \in 1..Len(tree)
    /\ LET m == AstRefMut(tree[i])
           after == [m EXCEPT !.body = ReplacedBody(m.body, f)]
       IN  /\ tree' = [tree EXCEPT ![i].body = after.body]
           /\ outcome' = [op |-> "replace", fail |-> "none", at |-> i, f |-> f,
                          before |-> tree[i], got |-> Immutable(after)]
    /\ iter' = NoIter
    /\ UNCHANGED <<counter, table, debug, issued, lists, pool, lbuf, spanVars>>

\* A view of the i-th node is derived; body is the payload the with_body calls
\* are given.  The history keeps the view.
View(i, kind, body) ==
    /\ Running /\ ~iter.on /\ i \in 1..Len(tree)
    /\ outcome' = [op |-> "view", fail |-> "none", at |-> i, kind |-> kind,
                   got |-> ViewOf(tree[i], kind, body)]
    /\ UNCHANGED <<counter, table, debug, issued, lists, pool, editVars, spanVars>>

\* ast_ref_iter(&self): a new iterator at the front of the list.  runs counts
\* the iterators made since the list last changed.
IterStart ==
    /\ Running /\ ~iter.on /\ iter.runs < 2
    /\ iter' = [on |-> TRUE, pos |-> 0, out |-> <<>>, runs |-> iter.runs + 1]
    /\ outcome' = NoOutcome
    /\ UNCHANGED <<counter, table, debug, issued, lists, pool, lbuf, tree,
                   spanVars>>

\* self.nodes.iter(): the node the iterator stands at.
IterItem_Rev(nodes, pos) == nodes[Len(nodes) - pos]

IterItem(nodes, pos) == nodes[pos + 1]

\* Iterator::next(): Some(x.ast_ref()) while nodes are left, then None, after
\* which the iterator is dropped.
IterNext ==
    /\ Running /\ iter.on
    /\ iter' = IF iter.pos < Len(tree)
               THEN [iter EXCEPT !.pos = @ + 1,
                                 !.out = Append(@, AstRef(IterItem(tree, iter.pos)))]
               ELSE [iter EXCEPT !.on = FALSE]
    /\ outcome' = NoOutcome
    /\ UNCHANGED <<counter, table, debug, issued, lists, pool, lbuf, tree,
                   spanVars>>

NodeNext ==
    \/ \E body \in Bodies : PushNode(body)
    \/ \E i \in 1..MaxTreeId, f \in Fns : Replace(i, f)
    \/ \E i \in 1..MaxTreeId, kind \in ViewKinds, body \in Bodies :
          View(i, kind, body)
    \/ IterStart
    \/ IterNext

NodeSpec == Init /\ [][NodeNext]_vars

\* ==================================================== claims under NodeSpec
\* An iterator made by ast_ref_iter has returned None.
IterDone == ~iter.on /\ iter.runs > 0

\* C19: what an iterator has yielded so far is, in order, one AstNodeRef per
\* node from the front of the list, each with the id and payload of its node;
\* when it has returned None it has yielded exactly as many as there are nodes,
\* on the first walk and on a walk started again.
C19_IterYieldsNodesInOrder ==
    /\ iter.runs > 0 =>
          /\ Len(iter.out) = iter.pos /\ iter.pos <= Len(tree)
          /\ \A i \in 1..Len(iter.out) :
                /\ iter.out[i].view = "ref"
                /\ iter.out[i].id = tree[i].id
                /\ iter.out[i].body = tree[i].body
    /\ IterDone => Len(iter.out) = Len(tree)

\* C19 witness: a second walk over an unchanged list of nodes with different
\* payloads has returned None.
C19_Witness ==
    /\ IterDone /\ iter.runs = 2 /\ Len(tree) = MaxTreeId
    /\ tree[1].body # tree[2].body

\* C20: a step of replace(f) then immutable() returns a view whose payload is
\* f of the node's payload before and whose id is the node's id before and
\* after; the step writes nothing to the table and issues no id.
C20_ReplaceKeepsId ==
    [][outcome'.op = "replace" =>
          LET i == outcome'.at
          IN  /\ outcome'.before = tree[i]
              /\ outcome'.got.body = Apply(outcome'.f, tree[i].body)
              /\ outcome'.got.id = tree[i].id
              /\ tree'[i] = AstNode(outcome'.got.body, tree[i].id)
              /\ table' = table /\ counter' = counter]_vars

\* C20 witness: replace changed the payload of a node in the middle of the
\* list.
C20_Witness ==
    /\ outcome.op = "replace" /\ outcome.at = 2 /\ Len(tree) = MaxTreeId
    /\ outcome.got.body # outcome.before.body
    /\ outcome.got.id = tree[2].id

\* C21: a step that derives a view of a node, by ast_ref, ast_ref_mut,
\* AstNode::with_body, AstNodeRef::with_body or immutable, gives a view with
\* the node's id, and leaves the node, the id counter and the table as they
\* were.
C21_ViewsCarryId ==
    [][outcome'.op = "view" =>
          /\ outcome'.got.id = tree[outcome'.at].id
          /\ tree' = tree
          /\ table' = table /\ counter' = counter /\ issued' = issued]_vars

\* C21 witness: AstNode::with_body wrapped another payload under the id of
\* the second node.
C21_Witness ==
    /\ outcome.op = "view" /\ outcome.kind = "with_body" /\ outcome.at = 2
    /\ outcome.got.body # tree[2].body
    /\ outcome.got.id = tree[2].id /\ outcome.got.id # NullId

C13_OnlyUpdateOverwrites ==
    [][\A i \in 1..Len(table) :
          (table[i] # SpanNull /\ i <= Len(table') /\ table'[i] # table[i])
              => outcome'.op = "set_span"]_vars

\* C16: a step of set_span ends well exactly when the list's id had a table
\* entry; then span_of on the list's id gives the span passed in; the lists,
\* so this list's id and nodes, are as before; a failed call writes nothing.
C16_SetSpanStores ==
    [][outcome'.op = "set_span" =>
          LET h == outcome'.self
          IN  /\ lists' = lists
              /\ (outcome'.fail = "none") <=> InBounds(table, lists[h].id)
              /\ outcome'.fail = "none" =>
                    SpanOf(table', lists'[h].id) =
                        [fail |-> "none", span |-> outcome'.span]
              /\ outcome'.fail # "none" => table' = table]_vars

\* C16 witness: set_span has replaced the span recorded by AstNodes::new on a
\* list that holds nodes.
C16_Witness ==
    /\ outcome.op = "set_span" /\ outcome.fail = "none"
    /\ lists[outcome.self].nodes # <<>>
    /\ lists[outcome.self].id \notin LocalIds
    /\ \A k \in 1..Len(lists[outcome.self].nodes) :
          lists[outcome.self].nodes[k] # lists[outcome.self].id
    /\ At(table, lists[outcome.self].id) = outcome.span

\* C17: a step of insert that ends well puts the item at position index,
\* keeps the earlier nodes in their order around it, and leaves the list's id,
\* the other lists and the table as they were.
C17_InsertPlaces ==
    [][(outcome'.op = "insert" /\ outcome'.fail = "none") =>
          LET h == outcome'.self
              k == outcome'.index
              old == lists[h].nodes
              new == lists'[h].nodes
          IN  /\ Len(new) = Len(old) + 1
              /\ new[k + 1] = Head(pool)
              /\ \A i \in 1..Len(old) : old[i] = new[IF i <= k THEN i ELSE i + 1]
              /\ lists'[h].id = lists[h].id
              /\ \A g \in Handles \ {h} : lists'[g] = lists[g]
              /\ table' = table /\ counter' = counter]_vars

\* C17 witness: a node was inserted between two nodes of a list.
C17_Witness ==
    /\ outcome.op = "insert" /\ outcome.fail = "none" /\ outcome.index = 1
    /\ Len(lists[outcome.self].nodes) = 3

\* Ids some list, node or LocalSpanMap entry carries.
HeldIds ==
    {lists[g].id : g \in {g \in Handles : lists[g].alive}}
        \cup UNION {{lists[g].nodes[k] : k \in 1..Len(lists[g].nodes)} :
                        g \in Handles}
        \cup {pool[k] : k \in 1..Len(pool)} \cup LocalIds

\* C18: a step in which a list comes to life is either with_id, which leaves
\* the counter and the table as they were, or new / empty, which gives the
\* list an id never issued before and held by no node or list, and stores the
\* list's span under it.
C18_NewAllocatesWithIdNot ==
    [][\A h \in Handles : (~lists[h].alive /\ lists'[h].alive) =>
          IF outcome'.op = "with_id"
          THEN counter' = counter /\ table' = table /\ issued' = issued
          ELSE LET id == lists'[h].id
               IN  /\ counter' = counter + 1
                   /\ id \notin KnownIds /\ id \notin HeldIds /\ id # NullId
                   /\ InBounds(table', id)
                   /\ \E span \in NewSpans :
                         EdNew(h, span) /\ At(table', id) = span
                   /\ \A i \in 1..Len(table) : table'[i] = table[i]]_vars

\* C18 witness: an empty list made by AstNodes::empty holds a recorded span,
\* and a list just made by with_id carries a reserved id the table lacks.
C18_Witness ==
    /\ outcome.op = "with_id"
    /\ lists[outcome.self].id \in LocalIds
    /\ ~InBounds(table, lists[outcome.self].id)
    /\ \E g \in Handles \ {outcome.self} :
          /\ lists[g].alive /\ lists[g].nodes = <<>>
          /\ InBounds(table, lists[g].id)
          /\ At(table, lists[g].id) \in NewSpans \ {SpanNull}

====
